---- MODULE Spec2Model ----
(***************************************************************************)
(* Batch dispatchers of the crawl orchestrator:                            *)
(*   src/output/split_cracking_level_2_link_for_crawling_multi.py          *)
(*       (variant "multi": one seeds file, concurrent workers)             *)
(*   src/output/split_cracking_level_2_link_for_crawling_multi_file.py     *)
(*       (variant "multi_file": several seeds files, concurrent workers)   *)
(* The main thread (the dispatcher) and the worker threads are processes   *)
(* of one state machine; every thread step that can be interleaved with    *)
(* another thread is one action.  time.time() is the variable now.         *)
(***************************************************************************)
EXTENDS Integers, Sequences, FiniteSets, TLC

(***************************************************************************)
(* Bounds of the model.  The settings of the configuration block are       *)
(* plain numbers in the source (BATCH_SIZE = 50, MAX_CONCURRENCY = 4,      *)
(* START_STAGGER_SECONDS = 60, POLL_INTERVAL = 5, MAX_WAIT_SECONDS = 3600, *)
(* MAX_START_RETRY = 3, back-off base 3 s); here they are scaled down so   *)
(* that every branch is reached within MaxTime clock ticks.                *)
(***************************************************************************)
MaxLines == 7
MaxTime == 3
BATCH_SIZE == 2
MAX_START_RETRY == 2
POLL_INTERVAL == 1
MAX_WAIT_SECONDS == 1
MAX_CONCURRENCY == 2
START_STAGGER_SECONDS == 1
BACKOFF_BASE == 1

\* Python's None where a string is expected, and a value that is no string.
None == "<None>"
NonStr == "<non-str>"
\* Python's None in an integer slot (code before the first attempt).
NoneCode == 0 - 2

TERMINAL_STATES == {"TERMINATED", "FINISHED", "STOPPED", "KILLED", "FAILED", "COMPLETED"}

\* The header row of the CSV log.
header == <<"batch_idx", "crawl_name", "num_seeds", "start_ok", "start_code",
            "start_msg", "final_state", "duration_sec">>

(***************************************************************************)
(* Seeds files.  A line is a sequence of characters; a file is a record    *)
(* with its path <<directory, base name, extension>>, whether it exists    *)
(* and its lines.                                                          *)
(***************************************************************************)
IsSpace(c) == c \in {" ", "\n", "\t"}

RECURSIVE lstrip(_)
lstrip(s) == IF s = <<>> THEN <<>>
             ELSE IF IsSpace(Head(s)) THEN lstrip(Tail(s)) ELSE s

RECURSIVE rstrip(_)
rstrip(s) == IF s = <<>> THEN <<>>
             ELSE IF IsSpace(s[Len(s)]) THEN rstrip(SubSeq(s, 1, Len(s) - 1)) ELSE s

\* str.strip()
strip(s) == rstrip(lstrip(s))

InSeq(x, s) == \E i \in 1..Len(s) : s[i] = x

\* A loop without the seen set: every non-blank line is appended.
RECURSIVE load_lines_KeepDuplicates(_, _)
load_lines_KeepDuplicates(lines, seeds) ==
    IF lines = <<>> THEN seeds
    ELSE LET s == strip(Head(lines))
         IN  IF s # <<>>
             THEN load_lines_KeepDuplicates(Tail(lines), Append(seeds, s))
             ELSE load_lines_KeepDuplicates(Tail(lines), seeds)

\* A loop that does not skip the blank lines.
RECURSIVE load_lines_KeepBlank(_, _)
load_lines_KeepBlank(lines, seeds) ==
    IF lines = <<>> THEN seeds
    ELSE LET s == strip(Head(lines))
         IN  IF ~InSeq(s, seeds)
             THEN load_lines_KeepBlank(Tail(lines), Append(seeds, s))
             ELSE load_lines_KeepBlank(Tail(lines), seeds)

\* load_seeds on the content of a file: the loop over the lines.
RECURSIVE load_lines(_, _)
load_lines(lines, seeds) ==
    IF lines = <<>> THEN seeds
    ELSE LET s == strip(Head(lines))
         IN  IF s # <<>> /\ ~InSeq(s, seeds)
             THEN load_lines(Tail(lines), Append(seeds, s))
             ELSE load_lines(Tail(lines), seeds)

load_seeds(file) == IF ~file.exists THEN <<>> ELSE load_lines(file.lines, <<>>)

Min(a, b) == IF a < b THEN a ELSE b

\* A chunked that drops the last, shorter batch.
chunked_FullOnly(lst, n) ==
    [j \in 1..(Len(lst) \div n) |-> SubSeq(lst, (j - 1) * n + 1, j * n)]

\* chunked: [lst[i:i+n] for i in range(0, len(lst), n)]
chunked(lst, n) ==
    [j \in 1..((Len(lst) + n - 1) \div n) |->
        SubSeq(lst, (j - 1) * n + 1, Min(j * n, Len(lst)))]

\* os.path.splitext(os.path.basename(path))[0]
prefix_of(path) == path[2]

\* The i-th line of the synthetic seeds files: URLs with a trailing newline,
\* a blank line at 3 and a duplicate of line 1 (with other whitespace) at 4.
Url(i) == << "u", ToString(i) >>
Line(i) == IF i = 3 THEN << " ", "\n" >>
           ELSE IF i = 4 THEN << " " >> \o Url(1) \o << "\n" >>
           ELSE Url(i) \o << "\n" >>

SeedsFile(path, n) == [path |-> path, exists |-> TRUE, lines |-> [i \in 1..n |-> Line(i)]]
MissingFile(path) == [path |-> path, exists |-> FALSE, lines |-> <<>>]
\* A file of blank lines only.
BlankFile(path) == [path |-> path, exists |-> TRUE, lines |-> << Line(3), Line(3) >>]

PathA == << "./", "seedsA", ".txt" >>
PathB == << "./", "seedsB", ".txt" >>
PathA2 == << "./old/", "seedsA", ".txt" >>

\* CRAWL_NAME_PREFIX of the single-file variant.
CRAWL_NAME_PREFIX == "prefix"

NumBatches(file) == Len(chunked(load_seeds(file), BATCH_SIZE))

RECURSIVE TotalBatches(_)
TotalBatches(files) == IF files = <<>> THEN 0
                       ELSE NumBatches(Head(files)) + TotalBatches(Tail(files))

\* The most threads a run of the model starts.
MaxThreads == NumBatches(SeedsFile(PathA, MaxLines))
Threads == 1..MaxThreads

\* Inputs of the single-file variant: SEEDS_FILE.
SingleInputs ==
    { << SeedsFile(PathA, n) >> : n \in {0, 4, MaxLines} }
    \cup { << MissingFile(PathA) >>, << BlankFile(PathA) >> }

\* Inputs of the multi-file variant: SEEDS_FILES.
MultiInputs ==
    { fs \in { << SeedsFile(PathA, 2), SeedsFile(PathA2, 2) >>,
               << SeedsFile(PathA, 0), SeedsFile(PathB, 4) >>,
               << MissingFile(PathA), SeedsFile(PathB, 2) >>,
               << MissingFile(PathA), BlankFile(PathB), SeedsFile(PathA2, 0) >> } :
        TotalBatches(fs) <= MaxThreads }

(***************************************************************************)
(* The remote service as the client sees it.                               *)
(***************************************************************************)
\* What one POST /crawls/{name}/startCrawl can end in.
HttpBasic ==
    { [kind |-> "response", status |-> 200, text |-> << "Crawler started", "\n" >>],
      [kind |-> "response", status |-> 503, text |-> << "Service Unavailable" >>] }
HttpOutcomes ==
    HttpBasic \cup { [kind |-> "error", status |-> 0, text |-> << "ConnectTimeout" >>] }

\* Every kind of end of the POST: informational, success (with and without
\* a body), a 3xx that is not followed, client and server errors, and the
\* exceptions of requests (connection refused, time-out).
HttpAll ==
    HttpOutcomes
    \cup { [kind |-> "response", status |-> 102, text |-> << >>],
           [kind |-> "response", status |-> 204, text |-> << >>],
           [kind |-> "response", status |-> 304, text |-> << >>],
           [kind |-> "response", status |-> 404, text |-> << "Not Found", "\n" >>],
           [kind |-> "error", status |-> 0, text |-> << "ConnectionError" >>] }

\* requests.Response.ok: raise_for_status() does not raise, i.e. the status
\* is no 4xx and no 5xx.
response_ok(status) == ~(400 <= status /\ status < 600)

\* start_crawl: (ok, status_code, text)
start_crawl(http) ==
    IF http.kind = "response"
    THEN [ok |-> response_ok(http.status), code |-> http.status, msg |-> strip(http.text)]
    ELSE [ok |-> FALSE, code |-> 0 - 1, msg |-> << "EXCEPTION: " >> \o http.text]

\* The service creates the job when it answers 2xx.
Accepted(http) == http.kind = "response" /\ 200 <= http.status /\ http.status <= 299

\* get_crawl_state: what one poll can return for a job, given what the
\* service holds for it.  (None, None): the listing failed or lacks the job.
NoInfo == [state |-> None, running |-> None]
ListingBasic(r) ==
    {NoInfo}
    \cup (IF r = "running"
          THEN { [state |-> "RUNNING", running |-> "True"],
                 [state |-> NonStr, running |-> "True"] }
          ELSE {})
    \cup (IF r = "finished" THEN { [state |-> "TERMINATED", running |-> "False"] } ELSE {})
Listing(r) ==
    ListingBasic(r)
    \cup (IF r = "finished" THEN { [state |-> "finished", running |-> "True"] } ELSE {})

\* str.upper() on the state vocabulary.
Upper(s) == CASE s = "finished" -> "FINISHED"
              [] s = "terminated" -> "TERMINATED"
              [] s = "running" -> "RUNNING"
              [] s = "Failed" -> "FAILED"
              [] OTHER -> s

\* bool(state) for a state that is None, a string or another JSON value.
Truthy(state) == state # None /\ state # ""

(***************************************************************************)
(* State.                                                                  *)
(***************************************************************************)
VARIABLES
    variant,      \* which program runs: "multi" or "multi_file"
    files,        \* SEEDS_FILE / SEEDS_FILES
    logcsv,       \* the file LOG_CSV
    now,          \* time.time()
    \* main thread
    dpc,          \* position of the main thread
    fileIdx,      \* position of the loop over SEEDS_FILES
    batches,      \* batches of the current seeds file
    prefix,       \* crawl name prefix
    idx,          \* idx of enumerate(batches, start=1)
    sema,         \* free units of the semaphore
    nthreads,     \* len(threads); thread t is the t-th started
    joinPos,      \* position of the join loop
    dwake,        \* end of the main thread's time.sleep
    interrupted,  \* KeyboardInterrupt was raised in the main thread
    \* shared by the threads
    csv_lock,     \* holder of _csv_lock
    csv_rows,     \* _csv_rows
    \* worker threads, by thread number
    wpc,          \* position of the worker
    widx,         \* argument idx
    wgroup,       \* argument seeds_group
    wname,        \* argument crawl_name
    attempt,      \* loop variable attempt
    res,          \* (ok, code, msg)
    wwake,        \* end of the worker's time.sleep
    wstart,       \* start of wait_until_finished
    outcome,      \* (final_state, duration) and the path taken
    \* the service and the history of the run
    remote,       \* what the service holds for the job of thread t
    calls,        \* results of the start_crawl calls of thread t
    polled,       \* thread t has called get_crawl_state
    waits,        \* number of wait_until_finished calls of thread t
    rowsBy,       \* the thread that appended each row of _csv_rows
    launchTime,   \* time of t.start() of thread t
    \* one call of wait_until_finished, taken alone
    mon_pc,         \* position in wait_until_finished
    mon_start,      \* start
    mon_last_state, \* last_state
    mon_obs,        \* the mapping of list_crawls and (state, running) of the last poll
    mon_result,     \* the returned (final_state, duration)
    mon_wake,       \* end of time.sleep(POLL_INTERVAL)
    mon_called,     \* time.time() when the pending get_crawl_state was called
    svc,            \* what the service holds for the job that is waited for
    \* the log file over several runs
    written,        \* per ended run: whether it found LOG_CSV, and the rows it wrote
    \* load_seeds and chunked, taken alone
    in_file,        \* the seeds file
    in_n,           \* the batch size n
    out_seeds,      \* the list load_seeds returned
    out_batches,    \* the list chunked returned
    \* the POSTs of the run, as the service receives them
    posts           \* per startCrawl: the thread, the job name in the URL, and ok

mainVars == << dpc, fileIdx, batches, prefix, idx, nthreads, joinPos, dwake, interrupted >>
workerVars == << wpc, widx, wgroup, wname, attempt, res, wwake, wstart, outcome >>
histVars == << remote, calls, polled, waits, rowsBy, launchTime >>
envVars == << variant, files >>
monVars == << mon_pc, mon_start, mon_last_state, mon_obs, mon_result, mon_wake, mon_called,
             svc >>
logVars == << written >>
batchVars == << in_file, in_n, out_seeds, out_batches >>
postVars == << posts >>
libVars == << monVars, logVars, batchVars, postVars >>
progVars == << variant, files, logcsv, now, mainVars, sema, csv_lock, csv_rows, workerVars,
               histVars >>
vars == << progVars, libVars >>

Free == 0
MainThread == 0 - 1

NoRes == [ok |-> FALSE, code |-> NoneCode, msg |-> <<>>]
NoOutcome == [path |-> "none", final_state |-> None, duration |-> 0]

AbsentLog == [exists |-> FALSE, lines |-> <<>>]

\* The job that wait_until_finished waits for when it is taken alone.
JobName == "job"
NoResult == [final_state |-> None, duration |-> 0]
NoObs == [crawls |-> << >>, state |-> None, running |-> None]

\* wait_until_finished has not been called.
MonIdle ==
    /\ mon_pc = "idle"
    /\ mon_start = 0
    /\ mon_last_state = None
    /\ mon_obs = NoObs
    /\ mon_result = NoResult
    /\ mon_wake = 0
    /\ mon_called = 0
    /\ svc = "absent"

\* No run has ended yet.
LogIdle == written = << >>

\* load_seeds and chunked are not exercised alone.
NotRun == [done |-> FALSE, val |-> << >>]
Returned(v) == [done |-> TRUE, val |-> v]

BatcherIdle ==
    /\ in_file = MissingFile(PathA)
    /\ in_n = 1
    /\ out_seeds = NotRun
    /\ out_batches = NotRun

\* No POST has been recorded.
PostIdle == posts = << >>

LibIdle == MonIdle /\ LogIdle /\ BatcherIdle /\ PostIdle

\* The state of the process when main() is entered.
ProcessStart ==
    /\ logcsv = AbsentLog
    /\ now = 0
    /\ dpc = "load"
    /\ fileIdx = 1
    /\ batches = <<>>
    /\ prefix = (IF variant = "multi_file" THEN "" ELSE CRAWL_NAME_PREFIX)
    /\ idx = 0
    /\ sema = MAX_CONCURRENCY
    /\ nthreads = 0
    /\ joinPos = 1
    /\ dwake = 0
    /\ interrupted = FALSE
    /\ csv_lock = Free
    /\ csv_rows = <<>>
    /\ wpc = [t \in Threads |-> "idle"]
    /\ widx = [t \in Threads |-> 0]
    /\ wgroup = [t \in Threads |-> <<>>]
    /\ wname = [t \in Threads |-> ""]
    /\ attempt = [t \in Threads |-> 0]
    /\ res = [t \in Threads |-> NoRes]
    /\ wwake = [t \in Threads |-> 0]
    /\ wstart = [t \in Threads |-> 0]
    /\ outcome = [t \in Threads |-> NoOutcome]
    /\ remote = [t \in Threads |-> "absent"]
    /\ calls = [t \in Threads |-> <<>>]
    /\ polled = [t \in Threads |-> FALSE]
    /\ waits = [t \in Threads |-> 0]
    /\ rowsBy = <<>>
    /\ launchTime = [t \in Threads |-> 0]

Init ==
    /\ variant \in {"multi", "multi_file"}
    /\ files \in (IF variant = "multi" THEN SingleInputs ELSE MultiInputs)
    /\ ProcessStart
    /\ LibIdle

\* The process is gone once main() has returned, or has been left by an
\* exception: daemon threads die with it.
ProcessAlive == dpc \notin {"done", "returned", "crashed"}

\* time.time() advances.
Tick ==
    /\ ProcessAlive
    /\ now < MaxTime
    /\ now' = now + 1
    /\ UNCHANGED << libVars, envVars, logcsv, mainVars, sema, csv_lock, csv_rows, workerVars, histVars >>

(***************************************************************************)
(* The main thread: main().                                                *)
(***************************************************************************)
\* A write_log_csv that opens the file for writing instead of appending.
write_log_csv_Truncating(file, rows, hdr) ==
    [exists |-> TRUE, lines |-> << hdr >> \o rows]

\* write_log_csv: append the rows, after the header when the file is new.
write_log_csv(file, rows, hdr) ==
    [exists |-> TRUE,
     lines |-> file.lines \o (IF ~file.exists THEN << hdr >> ELSE <<>>) \o rows]

\* load_seeds and chunked for the current seeds file.  The single-file
\* variant returns when there are no seeds; the multi-file variant goes on
\* to the next file and to the joins after the last one.
Load ==
    /\ dpc = "load"
    /\ IF fileIdx > Len(files)
       THEN /\ dpc' = "join"
            /\ UNCHANGED << fileIdx, batches, prefix, idx >>
       ELSE LET seeds == load_seeds(files[fileIdx])
            IN  IF seeds = <<>>
                THEN /\ IF variant = "multi"
                        THEN dpc' = "returned" /\ fileIdx' = fileIdx
                        ELSE dpc' = "load" /\ fileIdx' = fileIdx + 1
                     /\ UNCHANGED << batches, prefix, idx >>
                ELSE /\ batches' = chunked(seeds, BATCH_SIZE)
                     /\ prefix' = (IF variant = "multi" THEN CRAWL_NAME_PREFIX
                                   ELSE prefix_of(files[fileIdx].path))
                     /\ idx' = 1
                     /\ dpc' = "acquire"
                     /\ fileIdx' = fileIdx
    /\ UNCHANGED << libVars, envVars, logcsv, now, nthreads, joinPos, dwake, interrupted,
                    sema, csv_lock, csv_rows, workerVars, histVars >>

\* A semaphore whose acquire never blocks.
CanAcquire_NeverBlocks == TRUE

\* threading.Semaphore.acquire() returns only when a unit is free.
CanAcquire == sema > 0

\* sema.acquire(): blocks while no unit is free.
Acquire ==
    /\ dpc = "acquire"
    /\ CanAcquire
    /\ sema' = sema - 1
    /\ dpc' = "start"
    /\ UNCHANGED << libVars, envVars, logcsv, now, fileIdx, batches, prefix, idx, nthreads,
                    joinPos, dwake, interrupted, csv_lock, csv_rows, workerVars, histVars >>

\* int(time.time()*1000)
Millis(t) == t * 1000

\* A job name without the time stamp.
crawl_name_NoStamp(pre, i, stamp) == pre \o "_" \o ToString(i)

\* crawl_name = f"{CRAWL_NAME_PREFIX}_{idx}_{stamp}"
crawl_name(pre, i, stamp) == pre \o "_" \o ToString(i) \o "_" \o ToString(stamp)

\* A dispatch loop that walks the batches from the last to the first.
NextBatch_Reversed == Len(batches) + 1 - idx

\* The batch the dispatch loop hands to the next worker.
NextBatch == idx

\* crawl_name, Thread(...).start(), threads.append(t), and the start of
\* time.sleep(START_STAGGER_SECONDS).
StartWorker ==
    /\ dpc = "start"
    /\ LET t == nthreads + 1
           b == NextBatch
       IN  /\ nthreads' = t
           /\ wpc' = [wpc EXCEPT ![t] = "call"]
           /\ widx' = [widx EXCEPT ![t] = b]
           /\ wgroup' = [wgroup EXCEPT ![t] = batches[b]]
           /\ wname' = [wname EXCEPT ![t] = crawl_name(prefix, b, Millis(now))]
           /\ attempt' = [attempt EXCEPT ![t] = 1]
           /\ launchTime' = [launchTime EXCEPT ![t] = now]
    /\ dwake' = now + START_STAGGER_SECONDS
    /\ dpc' = "sleep"
    /\ UNCHANGED << libVars, envVars, logcsv, now, fileIdx, batches, prefix, idx, joinPos,
                    interrupted, sema, csv_lock, csv_rows, res, wwake, wstart,
                    outcome, remote, calls, polled, waits, rowsBy >>

\* A sleep that is skipped while the semaphore has free units.
StaggerOver_OnlyWhenFull == sema > 0 \/ now >= dwake

\* When the main thread's sleep after a launch may end.
StaggerOver == now >= dwake

\* time.sleep returns; the loop goes to the next batch, or ends.
Stagger ==
    /\ dpc = "sleep"
    /\ StaggerOver
    /\ IF idx < Len(batches)
       THEN idx' = idx + 1 /\ dpc' = "acquire" /\ fileIdx' = fileIdx
       ELSE IF variant = "multi"
            THEN idx' = idx /\ dpc' = "join" /\ fileIdx' = fileIdx
            ELSE idx' = idx /\ dpc' = "load" /\ fileIdx' = fileIdx + 1
    /\ UNCHANGED << libVars, envVars, logcsv, now, batches, prefix, nthreads, joinPos, dwake,
                    interrupted, sema, csv_lock, csv_rows, workerVars, histVars >>

\* for t in threads: t.join()
Join ==
    /\ dpc = "join"
    /\ joinPos <= nthreads
    /\ wpc[joinPos] = "done"
    /\ joinPos' = joinPos + 1
    /\ UNCHANGED << libVars, envVars, logcsv, now, dpc, fileIdx, batches, prefix, idx, nthreads,
                    dwake, interrupted, sema, csv_lock, csv_rows, workerVars, histVars >>

JoinEnd ==
    /\ dpc = "join"
    /\ joinPos > nthreads
    /\ dpc' = "flush"
    /\ UNCHANGED << libVars, envVars, logcsv, now, fileIdx, batches, prefix, idx, nthreads,
                    joinPos, dwake, interrupted, sema, csv_lock, csv_rows, workerVars,
                    histVars >>

\* The positions of the main thread inside its try block.
InTry == dpc \in {"acquire", "start", "sleep", "join"}
         \/ (variant = "multi_file" /\ dpc = "load")

\* Where the main thread continues after the except clause.
AfterInterrupt == "flush"

\* KeyboardInterrupt in the try block: the except clause logs, and main
\* goes on to write the CSV.
Interrupt ==
    /\ InTry
    /\ ~interrupted
    /\ interrupted' = TRUE
    /\ dpc' = AfterInterrupt
    /\ UNCHANGED << libVars, envVars, logcsv, now, fileIdx, batches, prefix, idx, nthreads,
                    joinPos, dwake, sema, csv_lock, csv_rows, workerVars, histVars >>

\* with _csv_lock:
FlushLock ==
    /\ dpc = "flush"
    /\ csv_lock = Free
    /\ csv_lock' = MainThread
    /\ dpc' = "write"
    /\ UNCHANGED << libVars, envVars, logcsv, now, fileIdx, batches, prefix, idx, nthreads,
                    joinPos, dwake, interrupted, sema, csv_rows, workerVars, histVars >>

\* write_log_csv(_csv_rows, _header), the end of the with block, and the
\* return of main().
FlushWrite ==
    /\ dpc = "write"
    /\ logcsv' = write_log_csv(logcsv, csv_rows, header)
    /\ csv_lock' = Free
    /\ dpc' = "done"
    /\ UNCHANGED << libVars, envVars, now, fileIdx, batches, prefix, idx, nthreads, joinPos,
                    dwake, interrupted, sema, csv_rows, workerVars, histVars >>

(***************************************************************************)
(* A worker thread: worker_run(sema, idx, seeds_group, crawl_name).        *)
(***************************************************************************)
\* A retry loop over range(1, MAX_START_RETRY + 2).
MoreAttempts_OneMore(a) == a <= MAX_START_RETRY

\* The for loop over range(1, MAX_START_RETRY + 1) has a next attempt.
MoreAttempts(a) == a < MAX_START_RETRY

\* A failure path without its return statement.
ReturnsAfterNotStarted_Missing == FALSE

\* Whether worker_run returns after it has recorded NOT_STARTED.
ReturnsAfterNotStarted == TRUE

\* One pass of the retry loop, at the moment start_crawl returns: break
\* when ok, which leads into wait_until_finished and its
\* start = time.time(); else the start of time.sleep(3 * attempt).
StartCrawlPass(t, http) ==
    /\ ProcessAlive
    /\ wpc[t] = "call"
    /\ LET r == start_crawl(http)
       IN  /\ res' = [res EXCEPT ![t] = r]
           /\ calls' = [calls EXCEPT ![t] = Append(@, r)]
           /\ remote' = [remote EXCEPT ![t] = IF Accepted(http) THEN "running" ELSE @]
           /\ IF r.ok
              THEN /\ wpc' = [wpc EXCEPT ![t] = "poll"]
                   /\ wstart' = [wstart EXCEPT ![t] = now]
                   /\ waits' = [waits EXCEPT ![t] = @ + 1]
                   /\ wwake' = wwake
              ELSE /\ wpc' = [wpc EXCEPT ![t] = "backoff"]
                   /\ wwake' = [wwake EXCEPT ![t] = now + BACKOFF_BASE * attempt[t]]
                   /\ UNCHANGED << wstart, waits >>
    /\ UNCHANGED << envVars, logcsv, now, mainVars, sema, csv_lock, csv_rows, widx,
                    wgroup, wname, attempt, outcome, polled, rowsBy, launchTime >>

StartCrawl(t, http) == StartCrawlPass(t, http) /\ UNCHANGED libVars

\* time.sleep(3 * attempt) returns: the next attempt, or the end of the loop
\* with ok false and the NOT_STARTED row to record.
Backoff(t) ==
    /\ ProcessAlive
    /\ wpc[t] = "backoff"
    /\ now >= wwake[t]
    /\ wwake' = [wwake EXCEPT ![t] = 0]
    /\ IF MoreAttempts(attempt[t])
       THEN /\ attempt' = [attempt EXCEPT ![t] = @ + 1]
            /\ wpc' = [wpc EXCEPT ![t] = "call"]
            /\ outcome' = outcome
       ELSE /\ outcome' = [outcome EXCEPT ![t] =
                              [path |-> "not_started", final_state |-> "NOT_STARTED",
                               duration |-> 0]]
            /\ wpc' = [wpc EXCEPT ![t] = "lock"]
            /\ attempt' = attempt
    /\ UNCHANGED << libVars, envVars, logcsv, now, mainVars, sema, csv_lock, csv_rows, widx,
                    wgroup, wname, res, wstart, histVars >>

\* state.upper() raises for a truthy state that is no string; it is reached
\* only when running is not False.
PollRaises(o) == o.running # "False" /\ o.state = NonStr

\* A test that looks at the running flag only.
PollFinished_RunningOnly(o) == o.running = "False"

\* A test that takes a job missing from the listing for a finished one.
PollFinished_OrMissing(o) ==
    \/ o.running = "False"
    \/ (Truthy(o.state) /\ o.state # NonStr /\ Upper(o.state) \in TERMINAL_STATES)
    \/ (o.state = None /\ o.running = None)

\* running is False or (state and (state.upper() in TERMINAL_STATES))
PollFinished(o) ==
    \/ o.running = "False"
    \/ (Truthy(o.state) /\ o.state # NonStr /\ Upper(o.state) \in TERMINAL_STATES)

\* A wait without a time limit.
TimedOut_Never(elapsed) == FALSE

\* A limit that is reached at MAX_WAIT_SECONDS, not after it.
TimedOut_AtLimit(elapsed) == elapsed >= MAX_WAIT_SECONDS

\* (time.time() - start) > MAX_WAIT_SECONDS
TimedOut(elapsed) == elapsed > MAX_WAIT_SECONDS

\* round(duration, 1) of a whole number of seconds
round1(d) == d

\* An except clause that logs the exception and records nothing.
ExceptClause_LogOnly == "release"

\* Where worker_run continues when its try block has raised: the except
\* clause, which records a row under _csv_lock.
ExceptClause == "lock"

\* One pass of the loop of wait_until_finished, at the moment
\* get_crawl_state returns (state, running) = o, and what worker_run does
\* with the result or the exception of wait_until_finished.
PollPass(t, o) ==
    /\ ProcessAlive
    /\ wpc[t] = "poll"
    /\ polled' = [polled EXCEPT ![t] = TRUE]
    /\ LET elapsed == now - wstart[t]
       IN  IF PollRaises(o)
           THEN /\ outcome' = [outcome EXCEPT ![t] =
                                  [path |-> "exception", final_state |-> "UNKNOWN",
                                   duration |-> 0]]
                /\ wpc' = [wpc EXCEPT ![t] = ExceptClause]
                /\ wwake' = wwake
           ELSE IF PollFinished(o)
           THEN /\ outcome' = [outcome EXCEPT ![t] =
                                  [path |-> "finished",
                                   final_state |-> IF Truthy(o.state) THEN o.state
                                                   ELSE "UNKNOWN",
                                   duration |-> round1(elapsed)]]
                /\ wpc' = [wpc EXCEPT ![t] = "lock"]
                /\ wwake' = wwake
           ELSE IF TimedOut(elapsed)
           THEN /\ outcome' = [outcome EXCEPT ![t] =
                                  [path |-> "finished", final_state |-> "TIMEOUT",
                                   duration |-> round1(elapsed)]]
                /\ wpc' = [wpc EXCEPT ![t] = "lock"]
                /\ wwake' = wwake
           ELSE /\ wwake' = [wwake EXCEPT ![t] = now + POLL_INTERVAL]
                /\ wpc' = [wpc EXCEPT ![t] = "psleep"]
                /\ outcome' = outcome
    /\ UNCHANGED << envVars, logcsv, now, mainVars, sema, csv_lock, csv_rows, widx,
                    wgroup, wname, attempt, res, wstart, remote, calls, waits,
                    rowsBy, launchTime >>

Poll(t, o) == PollPass(t, o) /\ UNCHANGED libVars

\* time.sleep(POLL_INTERVAL) returns.
PollWake(t) ==
    /\ ProcessAlive
    /\ wpc[t] = "psleep"
    /\ now >= wwake[t]
    /\ wwake' = [wwake EXCEPT ![t] = 0]
    /\ wpc' = [wpc EXCEPT ![t] = "poll"]
    /\ UNCHANGED << libVars, envVars, logcsv, now, mainVars, sema, csv_lock, csv_rows, widx,
                    wgroup, wname, attempt, res, wstart, outcome, histVars >>

\* with _csv_lock:
Lock(t) ==
    /\ ProcessAlive
    /\ wpc[t] = "lock"
    /\ csv_lock = Free
    /\ csv_lock' = t
    /\ wpc' = [wpc EXCEPT ![t] = "append"]
    /\ UNCHANGED << libVars, envVars, logcsv, now, mainVars, sema, csv_rows, widx, wgroup,
                    wname, attempt, res, wwake, wstart, outcome, histVars >>

\* The rows of a worker whose NOT_STARTED row carries the first attempt's
\* reply in place of the last one's.
Row_FirstReply(t) ==
    CASE outcome[t].path = "not_started" ->
            << widx[t], wname[t], Len(wgroup[t]), FALSE, calls[t][1].code,
               calls[t][1].msg, "NOT_STARTED", 0 >>
      [] outcome[t].path = "finished" ->
            << widx[t], wname[t], Len(wgroup[t]), TRUE, res[t].code, res[t].msg,
               outcome[t].final_state, outcome[t].duration >>
      [] OTHER ->
            << widx[t], wname[t], Len(wgroup[t]), FALSE, 0 - 1,
               << "EXCEPTION: ", "AttributeError" >>, "UNKNOWN", 0 >>

\* The row of each of the three _csv_rows.append calls.
Row(t) ==
    CASE outcome[t].path = "not_started" ->
            << widx[t], wname[t], Len(wgroup[t]), FALSE, res[t].code, res[t].msg,
               "NOT_STARTED", 0 >>
      [] outcome[t].path = "finished" ->
            << widx[t], wname[t], Len(wgroup[t]), TRUE, res[t].code, res[t].msg,
               outcome[t].final_state, outcome[t].duration >>
      [] OTHER ->
            << widx[t], wname[t], Len(wgroup[t]), FALSE, 0 - 1,
               << "EXCEPTION: ", "AttributeError" >>, "UNKNOWN", 0 >>

\* An append that leaves the with block without giving _csv_lock back.
AppendRow_KeepsLock(t) ==
    /\ ProcessAlive
    /\ wpc[t] = "append"
    /\ csv_rows' = Append(csv_rows, Row(t))
    /\ rowsBy' = Append(rowsBy, t)
    /\ csv_lock' = csv_lock
    /\ IF outcome[t].path = "not_started" /\ ~ReturnsAfterNotStarted
       THEN /\ wpc' = [wpc EXCEPT ![t] = "poll"]
            /\ wstart' = [wstart EXCEPT ![t] = now]
            /\ waits' = [waits EXCEPT ![t] = @ + 1]
       ELSE /\ wpc' = [wpc EXCEPT ![t] = "release"]
            /\ UNCHANGED << wstart, waits >>
    /\ UNCHANGED << libVars, envVars, logcsv, now, mainVars, sema, widx, wgroup, wname,
                    attempt, res, wwake, outcome, remote, calls, polled, launchTime >>

\* _csv_rows.append(...) and the end of the with block.  After the
\* NOT_STARTED row the worker returns.
AppendRow(t) ==
    /\ ProcessAlive
    /\ wpc[t] = "append"
    /\ csv_rows' = Append(csv_rows, Row(t))
    /\ rowsBy' = Append(rowsBy, t)
    /\ csv_lock' = Free
    /\ IF outcome[t].path = "not_started" /\ ~ReturnsAfterNotStarted
       THEN /\ wpc' = [wpc EXCEPT ![t] = "poll"]
            /\ wstart' = [wstart EXCEPT ![t] = now]
            /\ waits' = [waits EXCEPT ![t] = @ + 1]
       ELSE /\ wpc' = [wpc EXCEPT ![t] = "release"]
            /\ UNCHANGED << wstart, waits >>
    /\ UNCHANGED << libVars, envVars, logcsv, now, mainVars, sema, widx, wgroup, wname,
                    attempt, res, wwake, outcome, remote, calls, polled, launchTime >>

\* A worker that releases at the end of its try block instead of in a
\* finally: the unit is released only after a monitored job.
Release_OnSuccessOnly(t) ==
    /\ ProcessAlive
    /\ wpc[t] = "release"
    /\ sema' = (IF outcome[t].path = "finished" THEN sema + 1 ELSE sema)
    /\ wpc' = [wpc EXCEPT ![t] = "done"]
    /\ attempt' = [attempt EXCEPT ![t] = 0]
    /\ res' = [res EXCEPT ![t] = NoRes]
    /\ wwake' = [wwake EXCEPT ![t] = 0]
    /\ wstart' = [wstart EXCEPT ![t] = 0]
    /\ outcome' = [outcome EXCEPT ![t] = NoOutcome]
    /\ calls' = [calls EXCEPT ![t] = <<>>]
    /\ polled' = [polled EXCEPT ![t] = FALSE]
    /\ waits' = [waits EXCEPT ![t] = 0]
    /\ UNCHANGED << libVars, envVars, logcsv, now, mainVars, csv_lock, csv_rows, widx,
                    wgroup, wname, remote, rowsBy, launchTime >>

\* finally: sema.release(); the thread ends, and its local variables and
\* the record of its calls with it.
Release(t) ==
    /\ ProcessAlive
    /\ wpc[t] = "release"
    /\ sema' = sema + 1
    /\ wpc' = [wpc EXCEPT ![t] = "done"]
    /\ attempt' = [attempt EXCEPT ![t] = 0]
    /\ res' = [res EXCEPT ![t] = NoRes]
    /\ wwake' = [wwake EXCEPT ![t] = 0]
    /\ wstart' = [wstart EXCEPT ![t] = 0]
    /\ outcome' = [outcome EXCEPT ![t] = NoOutcome]
    /\ calls' = [calls EXCEPT ![t] = <<>>]
    /\ polled' = [polled EXCEPT ![t] = FALSE]
    /\ waits' = [waits EXCEPT ![t] = 0]
    /\ UNCHANGED << libVars, envVars, logcsv, now, mainVars, csv_lock, csv_rows, widx, wgroup,
                    wname, remote, rowsBy, launchTime >>

\* The service ends a job, on its own schedule, while the worker watches it.
RemoteFinish(t) ==
    /\ ProcessAlive
    /\ wpc[t] \in {"poll", "psleep"}
    /\ remote[t] = "running"
    /\ remote' = [remote EXCEPT ![t] = "finished"]
    /\ UNCHANGED << libVars, envVars, logcsv, now, mainVars, sema, csv_lock, csv_rows,
                    workerVars, calls, polled, waits, rowsBy, launchTime >>

Next ==
    \/ Tick
    \/ Load
    \/ Acquire
    \/ StartWorker
    \/ Stagger
    \/ Join
    \/ JoinEnd
    \/ Interrupt
    \/ FlushLock
    \/ FlushWrite
    \/ \E t \in Threads : \E http \in HttpBasic : StartCrawl(t, http)
    \/ \E t \in Threads : Backoff(t)
    \/ \E t \in Threads : \E o \in ListingBasic(remote[t]) : Poll(t, o)
    \/ \E t \in Threads : PollWake(t)
    \/ \E t \in Threads : Lock(t)
    \/ \E t \in Threads : AppendRow(t)
    \/ \E t \in Threads : Release(t)
    \/ \E t \in Threads : RemoteFinish(t)

Spec == Init /\ [][Next]_vars

(***************************************************************************)
(* One batch, with every reply of the service: the specification of the    *)
(* claims about a single worker.                                           *)
(***************************************************************************)
OneBatchInputs ==
    { << "multi", << SeedsFile(PathA, 4) >> >>,
      << "multi", << SeedsFile(PathA, 1) >> >>,
      << "multi_file", << SeedsFile(PathA, 0), SeedsFile(PathB, 4) >> >> }

InitWorker ==
    /\ \E c \in OneBatchInputs : variant = c[1] /\ files = c[2]
    /\ ProcessStart
    /\ LibIdle

NextWorker ==
    \/ Tick
    \/ Load
    \/ Acquire
    \/ StartWorker
    \/ Stagger
    \/ Join
    \/ JoinEnd
    \/ Interrupt
    \/ FlushLock
    \/ FlushWrite
    \/ \E t \in Threads : \E http \in HttpOutcomes : StartCrawl(t, http)
    \/ \E t \in Threads : Backoff(t)
    \/ \E t \in Threads : \E o \in Listing(remote[t]) : Poll(t, o)
    \/ \E t \in Threads : PollWake(t)
    \/ \E t \in Threads : Lock(t)
    \/ \E t \in Threads : AppendRow(t)
    \/ \E t \in Threads : Release(t)
    \/ \E t \in Threads : RemoteFinish(t)

SpecWorker == InitWorker /\ [][NextWorker]_vars

(***************************************************************************)
(* The sequential variant, src/split_cracking_level_2_link_for_crawling.py *)
(* (variant "seq"): main() runs the batches one after the other, itself.   *)
(* The per-thread variables hold the life of batch idx at position idx.    *)
(***************************************************************************)
\* time.sleep(1) between two batches.
SEQ_GAP_SECONDS == 1

\* int(time.time())
Seconds(t) == t

\* load_seeds, the return when there are no seeds, and chunked.
SeqLoad ==
    /\ dpc = "load"
    /\ LET seeds == load_seeds(files[1])
       IN  IF seeds = << >>
           THEN dpc' = "returned" /\ UNCHANGED << batches, idx >>
           ELSE /\ batches' = chunked(seeds, BATCH_SIZE)
                /\ idx' = 1
                /\ dpc' = "name"
    /\ UNCHANGED << libVars, envVars, logcsv, now, fileIdx, prefix, nthreads, joinPos,
                    dwake, interrupted, sema, csv_lock, csv_rows, workerVars, histVars >>

\* The top of the loop body: crawl_name, and the start of the retry loop.
SeqName ==
    /\ dpc = "name"
    /\ wname' = [wname EXCEPT ![idx] = crawl_name(prefix, idx, Seconds(now))]
    /\ widx' = [widx EXCEPT ![idx] = idx]
    /\ wgroup' = [wgroup EXCEPT ![idx] = batches[idx]]
    /\ attempt' = [attempt EXCEPT ![idx] = 1]
    /\ launchTime' = [launchTime EXCEPT ![idx] = now]
    /\ dpc' = "call"
    /\ UNCHANGED << libVars, envVars, logcsv, now, fileIdx, batches, prefix, idx, nthreads,
                    joinPos, dwake, interrupted, sema, csv_lock, csv_rows, wpc, res,
                    wwake, wstart, outcome, remote, calls, polled, waits, rowsBy >>

\* A loop that ends after its first batch.
SeqAfterBatch_StopAfterFirst == "write"

\* The end of the loop body: the next batch, or write_log_csv after the
\* last one.
SeqAfterBatch == IF idx < Len(batches) THEN "name" ELSE "write"

\* One pass of the retry loop, at the moment start_crawl returns.
SeqStartCrawl(http) ==
    /\ dpc = "call"
    /\ LET r == start_crawl(http)
       IN  /\ res' = [res EXCEPT ![idx] = r]
           /\ calls' = [calls EXCEPT ![idx] = Append(@, r)]
           /\ remote' = [remote EXCEPT ![idx] = IF Accepted(http) THEN "running" ELSE @]
           /\ IF r.ok
              THEN /\ dpc' = "poll"
                   /\ wstart' = [wstart EXCEPT ![idx] = now]
                   /\ waits' = [waits EXCEPT ![idx] = @ + 1]
                   /\ dwake' = dwake
              ELSE /\ dpc' = "backoff"
                   /\ dwake' = now + BACKOFF_BASE * attempt[idx]
                   /\ UNCHANGED << wstart, waits >>
    /\ UNCHANGED << libVars, envVars, logcsv, now, fileIdx, batches, prefix, idx, nthreads,
                    joinPos, interrupted, sema, csv_lock, csv_rows, wpc, widx, wgroup,
                    wname, attempt, wwake, outcome, polled, rowsBy, launchTime >>

\* time.sleep(3 * attempt) returns: the next attempt, or the NOT_STARTED
\* row and continue.
SeqBackoff ==
    /\ dpc = "backoff"
    /\ now >= dwake
    /\ IF MoreAttempts(attempt[idx])
       THEN /\ attempt' = [attempt EXCEPT ![idx] = @ + 1]
            /\ dpc' = "call"
            /\ UNCHANGED << idx, csv_rows, rowsBy >>
       ELSE /\ csv_rows' = Append(csv_rows,
                                  << idx, wname[idx], Len(wgroup[idx]), FALSE,
                                     res[idx].code, res[idx].msg, "NOT_STARTED", 0 >>)
            /\ rowsBy' = Append(rowsBy, idx)
            /\ dpc' = SeqAfterBatch
            /\ idx' = (IF idx < Len(batches) THEN idx + 1 ELSE idx)
            /\ attempt' = attempt
    /\ UNCHANGED << libVars, envVars, logcsv, now, fileIdx, batches, prefix, nthreads,
                    joinPos, dwake, interrupted, sema, csv_lock, wpc, widx, wgroup,
                    wname, res, wwake, wstart, outcome, remote, calls, polled, waits,
                    launchTime >>

\* Where main() is after an exception that nothing catches.
SeqUncaught == "crashed"

\* One pass of the loop of wait_until_finished: its exception leaves
\* main(); its return is followed by the row and time.sleep(1).
SeqPoll(o) ==
    /\ dpc = "poll"
    /\ polled' = [polled EXCEPT ![idx] = TRUE]
    /\ LET elapsed == now - wstart[idx]
           row(st) == << idx, wname[idx], Len(wgroup[idx]), TRUE, res[idx].code,
                         res[idx].msg, st, round1(elapsed) >>
       IN  IF PollRaises(o)
           THEN /\ dpc' = SeqUncaught
                /\ UNCHANGED << csv_rows, rowsBy, dwake >>
           ELSE IF PollFinished(o)
           THEN /\ csv_rows' = Append(csv_rows,
                                      row(IF Truthy(o.state) THEN o.state ELSE "UNKNOWN"))
                /\ rowsBy' = Append(rowsBy, idx)
                /\ dpc' = "gap"
                /\ dwake' = now + SEQ_GAP_SECONDS
           ELSE IF TimedOut(elapsed)
           THEN /\ csv_rows' = Append(csv_rows, row("TIMEOUT"))
                /\ rowsBy' = Append(rowsBy, idx)
                /\ dpc' = "gap"
                /\ dwake' = now + SEQ_GAP_SECONDS
           ELSE /\ dpc' = "psleep"
                /\ dwake' = now + POLL_INTERVAL
                /\ UNCHANGED << csv_rows, rowsBy >>
    /\ UNCHANGED << libVars, envVars, logcsv, now, fileIdx, batches, prefix, idx, nthreads,
                    joinPos, interrupted, sema, csv_lock, workerVars, remote, calls,
                    waits, launchTime >>

\* time.sleep(POLL_INTERVAL) returns.
SeqPollWake ==
    /\ dpc = "psleep"
    /\ now >= dwake
    /\ dpc' = "poll"
    /\ UNCHANGED << libVars, envVars, logcsv, now, fileIdx, batches, prefix, idx, nthreads,
                    joinPos, dwake, interrupted, sema, csv_lock, csv_rows, workerVars,
                    histVars >>

\* time.sleep(1) returns.
SeqGap ==
    /\ dpc = "gap"
    /\ now >= dwake
    /\ dpc' = SeqAfterBatch
    /\ idx' = (IF idx < Len(batches) THEN idx + 1 ELSE idx)
    /\ UNCHANGED << libVars, envVars, logcsv, now, fileIdx, batches, prefix, nthreads,
                    joinPos, dwake, interrupted, sema, csv_lock, csv_rows, workerVars,
                    histVars >>

\* write_log_csv(csv_rows, header) and the return of main().
SeqWrite ==
    /\ dpc = "write"
    /\ logcsv' = write_log_csv(logcsv, csv_rows, header)
    /\ dpc' = "done"
    /\ UNCHANGED << libVars, envVars, now, fileIdx, batches, prefix, idx, nthreads,
                    joinPos, dwake, interrupted, sema, csv_lock, csv_rows, workerVars,
                    histVars >>

\* KeyboardInterrupt: main() has no handler for it.
SeqInterrupt ==
    /\ dpc \in {"name", "call", "backoff", "poll", "psleep", "gap", "write"}
    /\ interrupted' = TRUE
    /\ dpc' = SeqUncaught
    /\ UNCHANGED << libVars, envVars, logcsv, now, fileIdx, batches, prefix, idx, nthreads,
                    joinPos, dwake, sema, csv_lock, csv_rows, workerVars, histVars >>

\* The service ends the job that main() is waiting for.
SeqRemoteFinish ==
    /\ dpc \in {"poll", "psleep"}
    /\ remote[idx] = "running"
    /\ remote' = [remote EXCEPT ![idx] = "finished"]
    /\ UNCHANGED << libVars, envVars, logcsv, now, mainVars, sema, csv_lock, csv_rows,
                    workerVars, calls, polled, waits, rowsBy, launchTime >>

InitSeq ==
    /\ variant = "seq"
    /\ files \in SingleInputs
    /\ ProcessStart
    /\ LibIdle

NextSeq ==
    \/ Tick
    \/ SeqLoad
    \/ SeqName
    \/ \E http \in HttpOutcomes : SeqStartCrawl(http)
    \/ SeqBackoff
    \/ (dpc = "poll" /\ \E o \in Listing(remote[idx]) : SeqPoll(o))
    \/ SeqPollWake
    \/ SeqGap
    \/ SeqWrite
    \/ SeqInterrupt
    \/ SeqRemoteFinish

SpecSeq == InitSeq /\ [][NextSeq]_vars

(***************************************************************************)
(* The three programs side by side: a run is a run of one of them.         *)
(***************************************************************************)
InitAll == Init \/ InitSeq

NextAll ==
    \/ (variant # "seq" /\ Next)
    \/ (variant = "seq" /\ NextSeq)

SpecAll == InitAll /\ [][NextAll]_vars

(***************************************************************************)
(* wait_until_finished(crawl_name) taken alone, with list_crawls and       *)
(* get_crawl_state computed from the replies of GET /crawls.               *)
(***************************************************************************)
\* An entry of the "crawlers" list of the reply.
Entry(id, state, running) ==
    [crawlerId |-> id, crawlerState |-> state, crawlerRunning |-> running]

OtherJob == Entry("other", "FINISHED", "False")

\* The entries the service can report for the awaited job.
JobEntries(s) ==
    CASE s = "running" ->
            { Entry(JobName, "RUNNING", "True"), Entry(JobName, None, "True"),
              Entry(JobName, NonStr, "True"), Entry(JobName, "running", None) }
      [] s = "finished" ->
            { Entry(JobName, "TERMINATED", "False"), Entry(JobName, "finished", "True"),
              Entry(JobName, "RUNNING", "False"), Entry(JobName, None, "False"),
              Entry(JobName, NonStr, "False"), Entry(JobName, "Failed", None) }
      [] OTHER -> {}

\* What one GET /crawls can end in: a connection error, an error status, an
\* empty body, a JSON body that is no object, or a JSON object with the
\* list "crawlers".
GetReply(kind, status, body, crawlers) ==
    [kind |-> kind, status |-> status, body |-> body, crawlers |-> crawlers]

Replies(s) ==
    { GetReply("error", 0, "none", << >>),
      GetReply("response", 503, "object", << OtherJob >>),
      GetReply("response", 200, "empty", << >>),
      GetReply("response", 200, "list", << >>),
      GetReply("response", 200, "object", << >>),
      GetReply("response", 200, "object", << OtherJob >>),
      GetReply("response", 200, "object", << Entry(None, "FINISHED", "False") >>) }
    \cup { GetReply("response", 200, "object", << e, OtherJob >>) : e \in JobEntries(s) }
    \cup { GetReply("response", 503, "object", << e >>) : e \in JobEntries(s) }

\* The loop of list_crawls: out[cid] = c for every entry with a crawlerId.
RECURSIVE crawl_map(_, _)
crawl_map(cs, out) ==
    IF cs = << >> THEN out
    ELSE LET c == Head(cs)
             cid == c.crawlerId
         IN  crawl_map(Tail(cs),
                       IF Truthy(cid)
                       THEN [k \in (DOMAIN out) \cup {cid} |-> IF k = cid THEN c ELSE out[k]]
                       ELSE out)

\* list_crawls: the mapping from crawlerId to entry; the empty mapping when
\* the request, raise_for_status or the decoding raises.
list_crawls(reply) ==
    IF reply.kind = "error" \/ ~response_ok(reply.status) \/ reply.body = "list"
    THEN << >>
    ELSE IF reply.body = "empty" THEN << >>
    ELSE crawl_map(reply.crawlers, << >>)

\* A get_crawl_state that reports a job missing from the mapping as not
\* running.
get_crawl_state_MissingIsStopped(crawls, name) ==
    IF name \notin DOMAIN crawls
    THEN [state |-> None, running |-> "False"]
    ELSE [state |-> crawls[name].crawlerState, running |-> crawls[name].crawlerRunning]

\* get_crawl_state: (crawlerState, crawlerRunning) of the job, (None, None)
\* when the mapping lacks it.
get_crawl_state(crawls, name) ==
    IF name \notin DOMAIN crawls
    THEN NoInfo
    ELSE [state |-> crawls[name].crawlerState, running |-> crawls[name].crawlerRunning]

\* start = time.time(); last_state = None
MonEnter ==
    /\ mon_pc = "idle"
    /\ mon_pc' = "poll"
    /\ mon_start' = now
    /\ mon_last_state' = None
    /\ mon_called' = now
    /\ UNCHANGED << progVars, logVars, batchVars, postVars, mon_obs, mon_result, mon_wake, svc >>

\* What wait_until_finished returns at a timeout.
TimeoutState_LastSeen(last) == IF last # None THEN last ELSE "TIMEOUT"

TimeoutState(last) == "TIMEOUT"

\* One pass of the loop, at the moment get_crawl_state returns.
MonPoll(reply) ==
    /\ mon_pc = "poll"
    /\ LET crawls == list_crawls(reply)
           o == get_crawl_state(crawls, JobName)
           last == IF o.state # None THEN o.state ELSE mon_last_state
           elapsed == now - mon_start
       IN  /\ mon_obs' = [crawls |-> crawls, state |-> o.state, running |-> o.running]
           /\ mon_last_state' = last
           /\ IF PollRaises(o)
              THEN /\ mon_pc' = "raised"
                   /\ UNCHANGED << mon_result, mon_wake >>
              ELSE IF PollFinished(o)
              THEN /\ mon_pc' = "returned"
                   /\ mon_result' = [final_state |-> IF Truthy(o.state) THEN o.state
                                                     ELSE "UNKNOWN",
                                     duration |-> elapsed]
                   /\ mon_wake' = mon_wake
              ELSE IF TimedOut(elapsed)
              THEN /\ mon_pc' = "returned"
                   /\ mon_result' = [final_state |-> TimeoutState(last), duration |-> elapsed]
                   /\ mon_wake' = mon_wake
              ELSE /\ mon_pc' = "sleep"
                   /\ mon_wake' = now + POLL_INTERVAL
                   /\ mon_result' = mon_result
    /\ UNCHANGED << progVars, logVars, batchVars, postVars, mon_start, mon_called, svc >>

\* time.sleep(POLL_INTERVAL) returns.
MonWake ==
    /\ mon_pc = "sleep"
    /\ now >= mon_wake
    /\ mon_pc' = "poll"
    /\ mon_wake' = 0
    /\ mon_called' = now
    /\ UNCHANGED << progVars, logVars, batchVars, postVars, mon_start, mon_last_state, mon_obs,
                    mon_result, svc >>

\* The service registers the job, ends it, and later drops it from the
\* listing, on its own schedule.
SvcStep ==
    /\ mon_pc \in {"idle", "poll", "sleep"}
    /\ svc' = CASE svc = "absent" -> "running"
                [] svc = "running" -> "finished"
                [] OTHER -> "dropped"
    /\ svc # "dropped"
    /\ UNCHANGED << progVars, logVars, batchVars, postVars, mon_pc, mon_start, mon_last_state,
                    mon_obs, mon_result, mon_wake, mon_called >>

InitWait ==
    /\ variant = "multi"
    /\ files = << >>
    /\ ProcessStart
    /\ LibIdle

NextWait ==
    \/ Tick
    \/ MonEnter
    \/ \E reply \in Replies(svc) : MonPoll(reply)
    \/ MonWake
    \/ SvcStep

SpecWait == InitWait /\ [][NextWait]_vars

\* Time passes, and a thread that can run does run.
FairWait ==
    /\ WF_vars(Tick)
    /\ WF_vars(MonWake)
    /\ WF_vars(\E reply \in Replies(svc) : MonPoll(reply))

SpecWaitFair == SpecWait /\ FairWait

(***************************************************************************)
(* wait_until_finished in real time: time.sleep(POLL_INTERVAL) lasts       *)
(* POLL_INTERVAL, and a GET /crawls returns (or raises, inside             *)
(* list_crawls) at most HTTP_TIMEOUT after it was called.                  *)
(***************************************************************************)
HTTP_TIMEOUT == 1

\* time.time() advances during a sleep that is not over, during a call that
\* may still be pending, and before the wait is entered.
TickTimed ==
    /\ \/ mon_pc = "idle"
       \/ (mon_pc = "sleep" /\ now < mon_wake)
       \/ (mon_pc = "poll" /\ now - mon_called < HTTP_TIMEOUT)
    /\ Tick

NextWaitTimed ==
    \/ TickTimed
    \/ MonEnter
    \/ \E reply \in Replies(svc) : MonPoll(reply)
    \/ MonWake
    \/ SvcStep

SpecWaitTimed == InitWait /\ [][NextWaitTimed]_vars

(***************************************************************************)
(* LOG_CSV over several runs of the program, one after the other: each run *)
(* either ends with write_log_csv(rows, header) or ends without it.        *)
(***************************************************************************)
MaxRuns == 3
MaxRunRows == 2

\* Rows as the runs collect them.
SampleRows ==
    { << 1, "prefix_1_0", 2, TRUE, 200, << "Crawler started" >>, "TERMINATED", 1 >>,
      << 2, "prefix_2_1000", 1, FALSE, 503, << "Service Unavailable" >>,
         "NOT_STARTED", 0 >> }

RowLists == UNION { [1..k -> SampleRows] : k \in 0..MaxRunRows }

\* A run that reaches the end of main(): write_log_csv(rows, header).
RunFlush(rows) ==
    /\ Len(written) < MaxRuns
    /\ logcsv' = write_log_csv(logcsv, rows, header)
    /\ written' = Append(written, [found |-> logcsv.exists, flushed |-> TRUE, rows |-> rows])
    /\ UNCHANGED << monVars, batchVars, postVars, envVars, now, mainVars, sema, csv_lock, csv_rows,
                    workerVars, histVars >>

\* A run that ends before write_log_csv: main() returns because there are
\* no seeds, or is left by an exception.
RunWithoutFlush ==
    /\ Len(written) < MaxRuns
    /\ written' = Append(written, [found |-> logcsv.exists, flushed |-> FALSE, rows |-> << >>])
    /\ UNCHANGED << monVars, batchVars, postVars, progVars >>

InitLog ==
    /\ variant = "multi"
    /\ files = << >>
    /\ ProcessStart
    /\ LibIdle

NextLog ==
    \/ \E rows \in RowLists : RunFlush(rows)
    \/ RunWithoutFlush

SpecLog == InitLog /\ [][NextLog]_vars

(***************************************************************************)
(* load_seeds(path) followed by chunked(seeds, n), taken alone, on every   *)
(* seeds file of up to MaxSeedLines lines and every n in 1..MaxN.          *)
(***************************************************************************)
MaxSeedLines == 4
MaxN == 3

\* The lines a seeds file is made of: URLs, a blank line, and a URL that
\* differs from another line in its surrounding whitespace only.
LineKinds == { Line(i) : i \in 1..5 }

SeedsFiles ==
    { [path |-> PathA, exists |-> TRUE, lines |-> ls] :
        ls \in UNION { [1..k -> LineKinds] : k \in 0..MaxSeedLines } }
    \cup { MissingFile(PathA) }

\* seeds = load_seeds(SEEDS_FILE)
LoadSeeds ==
    /\ ~out_seeds.done
    /\ out_seeds' = Returned(load_seeds(in_file))
    /\ UNCHANGED << progVars, monVars, logVars, postVars, in_file, in_n, out_batches >>

\* batches = chunked(seeds, n)
Chunk ==
    /\ out_seeds.done
    /\ ~out_batches.done
    /\ out_batches' = Returned(chunked(out_seeds.val, in_n))
    /\ UNCHANGED << progVars, monVars, logVars, postVars, in_file, in_n, out_seeds >>

InitBatcher ==
    /\ variant = "multi"
    /\ files = << >>
    /\ ProcessStart
    /\ MonIdle
    /\ LogIdle
    /\ PostIdle
    /\ in_file \in SeedsFiles
    /\ in_n \in 1..MaxN
    /\ out_seeds = NotRun
    /\ out_batches = NotRun

NextBatcher == LoadSeeds \/ Chunk

SpecBatcher == InitBatcher /\ [][NextBatcher]_vars

(***************************************************************************)
(* A run of the concurrent dispatcher in real time: a thread that can run  *)
(* does so before the clock moves on, and an HTTP call returns within the  *)
(* second in which it was made (HTTP_TIMEOUT is not scaled into the        *)
(* model).  The clock moves only when every live thread is asleep or       *)
(* blocked.  No KeyboardInterrupt is delivered.                            *)
(***************************************************************************)
\* The longest life of a worker: the sleeps of the retry loop, then the
\* polls of wait_until_finished up to the first one after MAX_WAIT_SECONDS.
WorkerMax ==
    BACKOFF_BASE * ((MAX_START_RETRY * (MAX_START_RETRY + 1)) \div 2)
    + ((MAX_WAIT_SECONDS \div POLL_INTERVAL) + 1) * POLL_INTERVAL

\* No run of MaxThreads batches lasts longer.
RunHorizon == (MaxThreads + 1) * (WorkerMax + START_STAGGER_SECONDS)

RunInputs ==
    { << "multi", << SeedsFile(PathA, MaxLines) >> >>,
      << "multi", << SeedsFile(PathA, 0) >> >>,
      << "multi_file", << SeedsFile(PathA, 2), SeedsFile(PathA2, 2) >> >>,
      << "multi_file", << MissingFile(PathA), BlankFile(PathB), SeedsFile(PathA2, 0) >> >> }

\* The steps of the main thread.
MainStep ==
    Load \/ Acquire \/ StartWorker \/ Stagger \/ Join \/ JoinEnd \/ FlushLock \/ FlushWrite

\* The steps of worker t.
WorkerStep(t) ==
    \/ \E http \in HttpBasic : StartCrawl(t, http)
    \/ Backoff(t)
    \/ \E o \in ListingBasic(remote[t]) : Poll(t, o)
    \/ PollWake(t)
    \/ Lock(t)
    \/ AppendRow(t)
    \/ Release(t)

\* Some thread is neither asleep nor blocked.
ThreadsCanRun == ENABLED (MainStep \/ \E t \in Threads : WorkerStep(t))

\* time.time() advances while every thread sleeps or is blocked.
TickRun ==
    /\ ProcessAlive
    /\ ~ThreadsCanRun
    /\ now < RunHorizon
    /\ now' = now + 1
    /\ UNCHANGED << libVars, envVars, logcsv, mainVars, sema, csv_lock, csv_rows, workerVars, histVars >>

InitRun ==
    /\ \E c \in RunInputs : variant = c[1] /\ files = c[2]
    /\ ProcessStart
    /\ LibIdle

NextRun ==
    \/ TickRun
    \/ Load
    \/ Acquire
    \/ StartWorker
    \/ Stagger
    \/ Join
    \/ JoinEnd
    \/ FlushLock
    \/ FlushWrite
    \/ \E t \in Threads : \E http \in HttpBasic : StartCrawl(t, http)
    \/ \E t \in Threads : Backoff(t)
    \/ \E t \in Threads : \E o \in ListingBasic(remote[t]) : Poll(t, o)
    \/ \E t \in Threads : PollWake(t)
    \/ \E t \in Threads : Lock(t)
    \/ \E t \in Threads : AppendRow(t)
    \/ \E t \in Threads : Release(t)
    \/ \E t \in Threads : RemoteFinish(t)

SpecRun == InitRun /\ [][NextRun]_vars

\* Every thread that can run is scheduled, and time passes.
FairRun ==
    /\ WF_vars(TickRun)
    /\ WF_vars(MainStep)
    /\ \A t \in Threads : WF_vars(WorkerStep(t))

SpecRunFair == SpecRun /\ FairRun

(***************************************************************************)
(* One worker at the level of the HTTP exchanges: the worker of the single *)
(* batch, with every kind of end of the POST and with its polls computed   *)
(* from the replies of GET /crawls by list_crawls and get_crawl_state as   *)
(* in wait_until_finished taken alone.  JobName stands for the crawl_name  *)
(* of the batch in the listing; mon_obs and mon_last_state are the last    *)
(* poll and last_state of the worker's wait.                               *)
(***************************************************************************)
\* A worker that makes a new job name for every attempt.
AttemptName_Fresh(t) == crawl_name(prefix, widx[t], Millis(now))

\* The crawl_name that worker t passes to start_crawl: its argument.
AttemptName(t) == wname[t]

\* One pass of the retry loop, with the POST it sends to
\* /crawls/{crawl_name}/startCrawl put on record.
StartCrawlPosted(t, http) ==
    /\ StartCrawlPass(t, http)
    /\ posts' = Append(posts, [by |-> t, name |-> AttemptName(t),
                                ok |-> start_crawl(http).ok])
    /\ UNCHANGED << monVars, logVars, batchVars >>

PollListed(t, reply) ==
    LET crawls == list_crawls(reply)
        o == get_crawl_state(crawls, JobName)
    IN  /\ PollPass(t, o)
        /\ mon_obs' = [crawls |-> crawls, state |-> o.state, running |-> o.running]
        /\ mon_last_state' = (IF o.state # None THEN o.state ELSE mon_last_state)
        /\ UNCHANGED << mon_pc, mon_start, mon_result, mon_wake, mon_called, svc, logVars,
                        batchVars, postVars >>

InitListed ==
    /\ variant = "multi"
    /\ files = << SeedsFile(PathA, 1) >>
    /\ ProcessStart
    /\ LibIdle

NextListed ==
    \/ Tick
    \/ Load
    \/ Acquire
    \/ StartWorker
    \/ Stagger
    \/ Join
    \/ JoinEnd
    \/ Interrupt
    \/ FlushLock
    \/ FlushWrite
    \/ \E t \in Threads : \E http \in HttpAll : StartCrawlPosted(t, http)
    \/ \E t \in Threads : Backoff(t)
    \/ \E t \in Threads : \E reply \in Replies(remote[t]) : PollListed(t, reply)
    \/ \E t \in Threads : PollWake(t)
    \/ \E t \in Threads : Lock(t)
    \/ \E t \in Threads : AppendRow(t)
    \/ \E t \in Threads : Release(t)
    \/ \E t \in Threads : RemoteFinish(t)

SpecListed == InitListed /\ [][NextListed]_vars

(***************************************************************************)
(* Vocabulary of the properties.                                           *)
(***************************************************************************)
Started == 1..nthreads

\* Workers that were started and have not released their semaphore unit.
Active == { t \in Threads : wpc[t] \notin {"idle", "done"} }

\* Workers that have appended their row.
Recorded(t) == wpc[t] \in {"release", "done"}

\* The positions of _csv_rows that thread t appended.
RowsOf(t) == { i \in 1..Len(rowsBy) : rowsBy[i] = t }

\* The fields of a row.
RowIdx(r) == r[1]
RowName(r) == r[2]
RowNumSeeds(r) == r[3]
RowStartOk(r) == r[4]
RowCode(r) == r[5]
RowMsg(r) == r[6]
RowFinalState(r) == r[7]
RowDuration(r) == r[8]

\* The rows this run has written to LOG_CSV (the file was absent before).
RunLog == IF logcsv.exists THEN Tail(logcsv.lines) ELSE <<>>

\* The deduplicated work items of the input, and the sizes of the batches
\* they make: BATCH_SIZE each, the rest in the last.
RECURSIVE NumItems(_)
NumItems(fs) == IF fs = <<>> THEN 0 ELSE Len(load_seeds(Head(fs))) + NumItems(Tail(fs))

ExpectedSizes(n) ==
    [j \in 1..((n + BATCH_SIZE - 1) \div BATCH_SIZE) |->
        IF j * BATCH_SIZE <= n THEN BATCH_SIZE ELSE n - (j - 1) * BATCH_SIZE]

RECURSIVE ExpectedAll(_)
ExpectedAll(fs) ==
    IF fs = <<>> THEN <<>>
    ELSE ExpectedSizes(Len(load_seeds(Head(fs)))) \o ExpectedAll(Tail(fs))

RECURSIVE SumSeeds(_)
SumSeeds(rows) == IF rows = <<>> THEN 0 ELSE RowNumSeeds(Head(rows)) + SumSeeds(Tail(rows))

(***************************************************************************)
(* C1.  The number of workers that were started and have not yet released  *)
(* their semaphore unit never exceeds MAX_CONCURRENCY, in any interleaving *)
(* of the dispatch loop and the workers.                                   *)
(***************************************************************************)
C1_ActiveWithinCeiling == Cardinality(Active) <= MAX_CONCURRENCY

\* The ceiling is reached and the dispatch loop is blocked on the semaphore.
C1_Witness ==
    /\ Cardinality(Active) = MAX_CONCURRENCY
    /\ dpc = "acquire"
    /\ sema = 0
    /\ nthreads < Len(batches)

(***************************************************************************)
(* C2.  Every worker has appended exactly one row to _csv_rows by the time *)
(* it releases its unit, and none before it records; every row of          *)
(* _csv_rows is the row of the worker that appended it.                    *)
(***************************************************************************)
C2_OneRowPerWorker ==
    /\ Len(csv_rows) = Len(rowsBy)
    /\ \A t \in Threads :
          /\ Cardinality(RowsOf(t)) = (IF Recorded(t) THEN 1 ELSE 0)
          /\ \A i \in RowsOf(t) :
                /\ RowIdx(csv_rows[i]) = widx[t]
                /\ RowName(csv_rows[i]) = wname[t]

\* Three workers have recorded, one on each path, and released.
C2_Witness ==
    /\ Len(csv_rows) = 3
    /\ \A t \in Started : wpc[t] = "done"
    /\ \E i, j, k \in 1..Len(csv_rows) :
          /\ RowFinalState(csv_rows[i]) = "NOT_STARTED"
          /\ RowFinalState(csv_rows[j]) = "UNKNOWN"
          /\ RowFinalState(csv_rows[k]) = "TERMINATED"

(***************************************************************************)
(* C3.  When a run that was not interrupted has ended, the rows it wrote   *)
(* to the log correspond one to one to the batches: the n-th started       *)
(* worker has exactly one row, whose num_seeds is the size of the n-th     *)
(* batch, and the num_seeds add up to the number of deduplicated items.    *)
(***************************************************************************)
C3_RowsMatchBatches ==
    (dpc = "done" /\ ~interrupted) =>
        LET exp == ExpectedAll(files)
        IN  /\ Len(RunLog) = Len(exp)
            /\ RunLog = csv_rows
            /\ \A n \in 1..Len(exp) :
                  \E i \in 1..Len(RunLog) :
                      /\ RowsOf(n) = {i}
                      /\ RowNumSeeds(RunLog[i]) = exp[n]
            /\ SumSeeds(RunLog) = NumItems(files)

\* Five items in batches of two: three rows, with 2, 2 and 1 seeds.
C3_Witness ==
    /\ dpc = "done"
    /\ ~interrupted
    /\ Len(RunLog) = 3
    /\ \E i, j, k \in 1..3 :
          /\ {i, j, k} = {1, 2, 3}
          /\ RowIdx(RunLog[i]) = 1 /\ RowNumSeeds(RunLog[i]) = BATCH_SIZE
          /\ RowIdx(RunLog[j]) = 2 /\ RowNumSeeds(RunLog[j]) = BATCH_SIZE
          /\ RowIdx(RunLog[k]) = 3 /\ RowNumSeeds(RunLog[k]) = 1

(***************************************************************************)
(* C4.  When a run has ended, interrupted or not, the log holds one row    *)
(* for every batch that was launched.                                      *)
(***************************************************************************)
C4_LogCompleteAfterInterrupt ==
    dpc = "done" => Len(RunLog) = nthreads

(***************************************************************************)
(* C5.  After an interrupt no further worker is started, and every worker  *)
(* that was started runs to its end: the run does not end while a started  *)
(* worker has not finished.                                                *)
(***************************************************************************)
C5_StartedWorkersFinish ==
    [][ /\ (interrupted => nthreads' = nthreads)
        /\ (dpc' = "done" => \A t \in 1..nthreads' : wpc'[t] = "done") ]_vars

(***************************************************************************)
(* C6.  Consecutive launches are at least START_STAGGER_SECONDS apart,     *)
(* also across the seeds files of the multi-file variant.                  *)
(***************************************************************************)
C6_LaunchSpacing ==
    \A t \in Started :
        t > 1 => launchTime[t] - launchTime[t - 1] >= START_STAGGER_SECONDS

\* The second launch is the first batch of the second seeds file; it took
\* a unit that was free, the first worker still holding its own.
C6_Witness ==
    /\ variant = "multi_file"
    /\ fileIdx = 2
    /\ nthreads = 2
    /\ dpc = "sleep"
    /\ wpc[1] \notin {"release", "done"}
    /\ launchTime[2] - launchTime[1] = START_STAGGER_SECONDS

(***************************************************************************)
(* C7.  Workers are started in increasing batch-index order: the worker of *)
(* batch k + 1 of a seeds file is started right after the worker of batch  *)
(* k, and never before it.  Nothing orders their ends.                     *)
(***************************************************************************)
C7_LaunchOrder ==
    /\ \A t \in Threads : wpc[t] # "idle" <=> t \in Started
    /\ \A t \in Started :
          IF t = 1 THEN widx[t] = 1
          ELSE \/ widx[t] = widx[t - 1] + 1
               \/ (variant = "multi_file" /\ widx[t] = 1)
    /\ variant = "multi" => \A t \in Started : widx[t] = t

\* The worker of batch 2 has ended while the worker of batch 1 still runs.
C7_Witness ==
    /\ variant = "multi"
    /\ nthreads >= 2
    /\ wpc[2] = "done"
    /\ wpc[1] \in {"poll", "psleep"}

(***************************************************************************)
(* C8.  The number of jobs that the service has accepted and that have not *)
(* ended in the service is at most MAX_CONCURRENCY.                        *)
(***************************************************************************)
C8_RemoteJobsWithinCeiling ==
    Cardinality({ t \in Threads : remote[t] = "running" }) <= MAX_CONCURRENCY

(***************************************************************************)
(* C9.  The retry loop calls start_crawl at most MAX_START_RETRY times;    *)
(* every call but the last was rejected; when the loop has ended, its      *)
(* result is the last call's, and either that call was accepted or there   *)
(* were exactly MAX_START_RETRY calls.                                     *)
(***************************************************************************)
LoopEnded(t) == wpc[t] \in {"poll", "psleep", "lock", "append", "release"}

C9_RetryLoop ==
    \A t \in Threads :
        LET n == Len(calls[t])
        IN  /\ n <= MAX_START_RETRY
            /\ \A i \in 1..(n - 1) : ~calls[t][i].ok
            /\ LoopEnded(t) =>
                  /\ n >= 1
                  /\ res[t] = calls[t][n]
                  /\ (res[t].ok \/ n = MAX_START_RETRY)

\* One rejected call, then an accepted one: two calls, the result is the
\* acceptance.
C9_Witness ==
    \E t \in Threads :
        /\ wpc[t] = "poll"
        /\ Len(calls[t]) = 2
        /\ ~calls[t][1].ok
        /\ res[t].ok
        /\ res[t].code = 200

(***************************************************************************)
(* C10.  A worker whose every attempt was rejected records one row with    *)
(* start_ok false, the code and message of the last attempt, NOT_STARTED   *)
(* and duration 0, and has not polled; wait_until_finished is entered at   *)
(* most once per worker, only after an accepted attempt, and always after  *)
(* one.                                                                    *)
(***************************************************************************)
C10_NotStartedRow ==
    \A t \in Threads :
        /\ waits[t] <= 1
        /\ (waits[t] = 1 \/ polled[t]) =>
              (waits[t] = 1 /\ Len(calls[t]) >= 1 /\ calls[t][Len(calls[t])].ok)
        /\ (LoopEnded(t) /\ res[t].ok) => waits[t] = 1
        /\ (wpc[t] = "release" /\ ~res[t].ok /\ outcome[t].path = "not_started") =>
              /\ ~polled[t]
              /\ waits[t] = 0
              /\ Len(calls[t]) = MAX_START_RETRY
              /\ \E i \in 1..Len(csv_rows) :
                    /\ RowsOf(t) = {i}
                    /\ csv_rows[i] =
                          << widx[t], wname[t], Len(wgroup[t]), FALSE,
                             calls[t][MAX_START_RETRY].code,
                             calls[t][MAX_START_RETRY].msg, "NOT_STARTED", 0 >>

\* A 503 and then a connection error: the row carries -1 and the
\* exception message of the last attempt.
C10_Witness ==
    \E t \in Threads :
        /\ wpc[t] = "release"
        /\ outcome[t].path = "not_started"
        /\ calls[t][1].code = 503
        /\ RowCode(csv_rows[Len(csv_rows)]) = 0 - 1
        /\ RowFinalState(csv_rows[Len(csv_rows)]) = "NOT_STARTED"

(***************************************************************************)
(* Vocabulary of the claims about wait_until_finished.                     *)
(***************************************************************************)
\* The poll saw the job with running explicitly false, or with a state
\* string that is terminal without regard to case.
IsString(x) == x \notin {None, NonStr}

AnyCase(S) == S \cup {"terminated", "finished", "Failed"}

TerminationObserved(o) ==
    \/ o.running = "False"
    \/ (IsString(o.state) /\ o.state \in AnyCase(TERMINAL_STATES))

\* The poll saw the job running (or of unknown running flag) in a state that
\* is not terminal, or did not see the job.
NothingTerminalObserved(o) ==
    \/ JobName \notin DOMAIN o.crawls
    \/ (o.running # "False" /\ o.state \in {None, "RUNNING", "running"})

\* The step is a pass of the loop: get_crawl_state has returned.
PollStep == mon_pc = "poll" /\ mon_pc' # "poll"

ReturnedState(st) == mon_pc = "returned" /\ mon_result.final_state = st
ReturnedOther == mon_pc = "returned" /\ mon_result.final_state # "TIMEOUT"

(***************************************************************************)
(* C11.  A pass of the loop of wait_until_finished ends the wait with a    *)
(* result other than TIMEOUT exactly when its poll observed running        *)
(* explicitly false or a state string that is terminal without regard to   *)
(* case; a poll that observed the job running in a non-terminal state, or  *)
(* did not observe it, never does.                                         *)
(***************************************************************************)
C11_EndsIffTerminationObserved ==
    [][ PollStep =>
          /\ ReturnedOther' <=> TerminationObserved(mon_obs')
          /\ NothingTerminalObserved(mon_obs') => ~ReturnedOther' ]_vars

\* The wait has ended on a lower-case "finished" of a job still flagged as
\* running.
C11_Witness ==
    /\ ReturnedState("finished")
    /\ mon_obs.running = "True"
    /\ mon_obs.state = "finished"

(***************************************************************************)
(* C12.  A pass of the loop whose poll observes no termination condition   *)
(* (the job missing from the listing, or present with a state string that  *)
(* is not terminal and running not false) returns TIMEOUT, with the        *)
(* elapsed time, when more than MAX_WAIT_SECONDS have elapsed, and sleeps  *)
(* otherwise; the state seen by earlier polls is not returned.  With time  *)
(* passing and the thread scheduled, a poll that is due after more than    *)
(* MAX_WAIT_SECONDS ends the wait, and every wait ends unless the clock    *)
(* (which stops at MaxTime) stops during one of its sleeps.                *)
(***************************************************************************)
WaitEnded == mon_pc \in {"returned", "raised"}

C12_TimeoutWhenNothingObserved ==
    /\ [][ (PollStep /\ ~TerminationObserved(mon_obs') /\ mon_obs'.state # NonStr) =>
              IF now - mon_start > MAX_WAIT_SECONDS
              THEN /\ mon_pc' = "returned"
                   /\ mon_result' = [final_state |-> "TIMEOUT", duration |-> now - mon_start]
              ELSE mon_pc' = "sleep" /\ mon_result' = NoResult ]_vars
    /\ (mon_pc = "poll" /\ now - mon_start > MAX_WAIT_SECONDS) ~> WaitEnded
    /\ (mon_pc \in {"poll", "sleep"})
          ~> (WaitEnded \/ (mon_pc = "sleep" /\ mon_wake > MaxTime))

\* TIMEOUT for a job that an earlier poll saw RUNNING and the last poll did
\* not see.
C12_Witness ==
    /\ ReturnedState("TIMEOUT")
    /\ mon_last_state = "RUNNING"
    /\ JobName \notin DOMAIN mon_obs.crawls
    /\ mon_result.duration > MAX_WAIT_SECONDS

(***************************************************************************)
(* C13 as claimed.  A worker whose try block has raised has recorded one   *)
(* row whose final_state is UNKNOWN_ERROR.                                 *)
(***************************************************************************)
Faulted(t) == wpc[t] = "release" /\ outcome[t].path = "exception"

C13_FaultRowUnknownError ==
    \A t \in Threads :
        Faulted(t) =>
            \E i \in 1..Len(csv_rows) :
                RowsOf(t) = {i} /\ RowFinalState(csv_rows[i]) = "UNKNOWN_ERROR"

(***************************************************************************)
(* C13 as amended.  A worker whose try block has raised (state.upper() on  *)
(* a state that is no string, during monitoring) has recorded exactly one  *)
(* row, with start_ok false, start_code -1, the exception as the message,  *)
(* final_state UNKNOWN and duration 0, before it releases its unit; the    *)
(* step in which the exception is raised changes nothing of the main       *)
(* thread and nothing of any other worker.                                 *)
(***************************************************************************)
C13_FaultRowUnknown ==
    [][ /\ \A t \in Threads :
              Faulted(t)' =>
                  \E i \in 1..Len(csv_rows') :
                      /\ RowsOf(t)' = {i}
                      /\ csv_rows'[i] =
                            << widx'[t], wname'[t], Len(wgroup'[t]), FALSE, 0 - 1,
                               << "EXCEPTION: ", "AttributeError" >>, "UNKNOWN", 0 >>
        /\ \A t \in Threads :
              (outcome'[t].path = "exception" /\ outcome[t].path # "exception") =>
                  /\ UNCHANGED << mainVars, sema, csv_rows >>
                  /\ \A u \in Threads \ {t} : wpc'[u] = wpc[u] /\ outcome'[u] = outcome[u]
                  /\ wpc'[t] \in {"lock", "append"} ]_vars

\* A worker has raised and recorded while another worker is monitoring its
\* job and the main thread is in its dispatch loop.
C13_Witness ==
    \E t, u \in Threads :
        /\ Faulted(t)
        /\ wpc[u] \in {"poll", "psleep"}
        /\ dpc \in {"acquire", "sleep"}
        /\ \E i \in RowsOf(t) : RowFinalState(csv_rows[i]) = "UNKNOWN"

(***************************************************************************)
(* C14 as claimed.  In every reachable state the free units of the         *)
(* semaphore and the started workers that have not released add up to      *)
(* MAX_CONCURRENCY, and the free units never exceed MAX_CONCURRENCY.       *)
(***************************************************************************)
UnitsInUse == Cardinality(Active)

C14_FreePlusActiveIsCeiling ==
    /\ sema + UnitsInUse = MAX_CONCURRENCY
    /\ sema <= MAX_CONCURRENCY

(***************************************************************************)
(* C14 as amended.  The main thread takes one unit in sema.acquire() and   *)
(* starts the worker in a later step, and every worker gives one unit back *)
(* in the step in which it ends, on each of its paths; no other step       *)
(* changes the semaphore.  So free units plus started workers that have    *)
(* not released are MAX_CONCURRENCY, less one while the main thread holds  *)
(* a unit whose worker it has not started yet (for good when it is         *)
(* interrupted there); the free units are within 0..MAX_CONCURRENCY.       *)
(***************************************************************************)
\* The main thread has acquired a unit and not yet started the worker.
UnitPending == IF dpc = "start" THEN 1 ELSE 0

C14_UnitsAccounted ==
    [][ /\ (sema' = sema - 1) <=> (dpc = "acquire" /\ dpc' = "start")
        /\ (sema' = sema + 1) <=>
              (\E t \in Threads : wpc[t] = "release" /\ wpc'[t] = "done")
        /\ sema' \in {sema - 1, sema, sema + 1}
        /\ \A t \in Threads :
              /\ (wpc[t] = "idle" /\ wpc'[t] # "idle") =>
                    (dpc = "start" /\ t = nthreads' /\ sema' = sema)
              /\ (wpc[t] # "done" /\ wpc'[t] = "done") => sema' = sema + 1
              /\ wpc[t] = "done" => wpc'[t] = "done"
        /\ sema' \in 0..MAX_CONCURRENCY
        /\ IF interrupted'
           THEN sema' + UnitsInUse' \in {MAX_CONCURRENCY - 1, MAX_CONCURRENCY}
           ELSE sema' + UnitsInUse' + UnitPending' = MAX_CONCURRENCY ]_vars

\* Three workers have ended, one on each path, and every unit is free
\* again.
C14_Witness ==
    /\ nthreads = 3
    /\ \A t \in Started : wpc[t] = "done"
    /\ sema = MAX_CONCURRENCY
    /\ { RowFinalState(csv_rows[i]) : i \in 1..Len(csv_rows) } =
          {"NOT_STARTED", "UNKNOWN", "TIMEOUT"}

(***************************************************************************)
(* C15.  Absent an interrupt, the process does not end before every batch  *)
(* of the input has been launched (has had its job name made and its       *)
(* submission begun), whatever became of the earlier batches: rejected     *)
(* after all retries, timed out, or ended by an exception.                 *)
(***************************************************************************)
ProcessEnded == ~ProcessAlive

BatchesLaunched == Cardinality({ t \in Threads : wname[t] # "" })

C15_EveryBatchLaunched ==
    (ProcessEnded /\ ~interrupted) => BatchesLaunched = TotalBatches(files)

(***************************************************************************)
(* C16.  Over every sequence of runs on one LOG_CSV, starting without the  *)
(* file: a run leaves the lines that were in the file before it as an      *)
(* unchanged prefix; the header is written by the first run that calls     *)
(* write_log_csv, which is the one that finds the file absent, and by no   *)
(* other; so the file is the header line followed by the rows of all runs  *)
(* in order.                                                               *)
(***************************************************************************)
IsPrefix(a, b) == Len(a) <= Len(b) /\ SubSeq(b, 1, Len(a)) = a

RECURSIVE RowsOfRuns(_)
RowsOfRuns(ws) == IF ws = << >> THEN << >> ELSE Head(ws).rows \o RowsOfRuns(Tail(ws))

Flushes == { i \in 1..Len(written) : written[i].flushed }

C16_LogAppendOnly ==
    [][ /\ IsPrefix(logcsv.lines, logcsv'.lines)
        /\ logcsv'.exists <=> Flushes' # {}
        /\ \A i \in Flushes' : ~written'[i].found <=> (\A j \in Flushes' : i <= j)
        /\ logcsv'.exists =>
              /\ logcsv'.lines[1] = header
              /\ Tail(logcsv'.lines) = RowsOfRuns(written') ]_vars

\* Three runs: one ended without writing, one wrote no rows (the header
\* only), one appended two rows.
C16_Witness ==
    /\ Len(written) = 3
    /\ ~written[1].flushed
    /\ written[2].flushed /\ written[2].rows = << >>
    /\ Len(written[3].rows) = 2
    /\ Len(logcsv.lines) = 3
    /\ logcsv.lines[1] = header

(***************************************************************************)
(* C17.  For every seeds file and every batch size n >= 1, the batches of  *)
(* chunked(load_seeds(file), n), concatenated in order, are the lines of   *)
(* the file without their surrounding whitespace, without the blank ones   *)
(* and without repetitions, each item at the place of its first            *)
(* occurrence; every batch but the last has n items, no batch is empty or  *)
(* longer than n, and every item is in exactly one batch, once.            *)
(***************************************************************************)
RECURSIVE Flatten(_)
Flatten(bs) == IF bs = << >> THEN << >> ELSE Head(bs) \o Flatten(Tail(bs))

\* The place of the first line of the file that reads x.
FirstLine(x) ==
    CHOOSE i \in 1..Len(in_file.lines) :
        /\ strip(in_file.lines[i]) = x
        /\ \A j \in 1..(i - 1) : strip(in_file.lines[j]) # x

WorkItems == { strip(in_file.lines[i]) : i \in 1..Len(in_file.lines) } \ { << >> }

C17_BatchesPartitionSeeds ==
    out_batches.done =>
        LET bs == out_batches.val
            all == Flatten(bs)
        IN  /\ { all[p] : p \in 1..Len(all) } = WorkItems
            /\ Len(all) = Cardinality(WorkItems)
            /\ \A p, q \in 1..Len(all) : p < q => FirstLine(all[p]) < FirstLine(all[q])
            /\ \A j \in 1..Len(bs) :
                  /\ Len(bs[j]) >= 1
                  /\ Len(bs[j]) <= in_n
                  /\ j < Len(bs) => Len(bs[j]) = in_n
            /\ \A x \in WorkItems :
                  Cardinality({ jk \in (1..Len(bs)) \X (1..in_n) :
                                  jk[2] <= Len(bs[jk[1]]) /\ bs[jk[1]][jk[2]] = x }) = 1

\* A file with a blank line and a repeated URL among three distinct ones,
\* in batches of two: a full batch and a last batch of one.
C17_Witness ==
    /\ out_batches.done
    /\ in_n = 2
    /\ Len(in_file.lines) = 4
    /\ Cardinality(WorkItems) = 3
    /\ in_file.lines[2] # in_file.lines[3]
    /\ strip(in_file.lines[2]) = strip(in_file.lines[3])
    /\ Len(out_batches.val) = 2
    /\ Len(out_batches.val[2]) = 1

(***************************************************************************)
(* C18.  When the seeds files hold no work item (they are missing, empty   *)
(* or of blank lines only), a run of each of the three programs makes no   *)
(* batch, takes no semaphore unit, starts no worker and submits no job; it *)
(* is never left by an exception, and as long as it has not ended its main *)
(* thread can take its next step.                                          *)
(***************************************************************************)
BlankLine(l) == \A k \in 1..Len(l) : IsSpace(l[k])

NoWorkItems ==
    \A i \in 1..Len(files) :
        files[i].exists => \A k \in 1..Len(files[i].lines) : BlankLine(files[i].lines[k])

MainCanStep ==
    IF variant = "seq" THEN ENABLED SeqLoad
    ELSE ENABLED (Load \/ Join \/ JoinEnd \/ FlushLock \/ FlushWrite)

C18_EmptyInputNoWork ==
    NoWorkItems =>
        /\ batches = << >>
        /\ idx = 0
        /\ sema = MAX_CONCURRENCY
        /\ nthreads = 0
        /\ \A t \in Threads :
              /\ wpc[t] = "idle"
              /\ wname[t] = ""
              /\ calls[t] = << >>
              /\ remote[t] = "absent"
        /\ csv_rows = << >>
        /\ dpc # "crashed"
        /\ dpc \in {"load", "join", "flush", "write", "done", "returned"}
        /\ ProcessAlive => MainCanStep

\* The multi-file program has gone through a missing file, a file of blank
\* lines and an empty file, and has ended.
C18_Witness ==
    /\ variant = "multi_file"
    /\ Len(files) = 3
    /\ NoWorkItems
    /\ fileIdx = 4
    /\ dpc = "done"
    /\ ~interrupted

(***************************************************************************)
(* C19.  In a run of each of the three programs, no two batches get the    *)
(* same job name: within a seeds file the batch index differs, and across  *)
(* the seeds files of the multi-file program (where the index restarts at  *)
(* 1 and the prefix is the base name of the file) the time stamp does.     *)
(***************************************************************************)
Named == { t \in Threads : wname[t] # "" }

ListingEmpty(o) == DOMAIN o.crawls = {}

C20_UnreachableIsNoInformation ==
    [][ (PollStep /\ ListingEmpty(mon_obs')) =>
          /\ mon_obs'.state = None /\ mon_obs'.running = None
          /\ mon_last_state' = mon_last_state
          /\ mon_pc' # "raised"
          /\ \/ /\ mon_pc' = "sleep"
                /\ mon_wake' = now + POLL_INTERVAL
                /\ mon_result' = NoResult
                /\ now - mon_start <= MAX_WAIT_SECONDS
             \/ /\ mon_pc' = "returned"
                /\ mon_result'.final_state = "TIMEOUT"
                /\ mon_result'.duration > MAX_WAIT_SECONDS ]_vars

\* The job was seen RUNNING, has ended in the service since, and the
\* listing has failed at the last poll: the wait sleeps on.
C20_Witness ==
    /\ mon_pc = "sleep"
    /\ ListingEmpty(mon_obs)
    /\ mon_last_state = "RUNNING"
    /\ svc = "finished"

(***************************************************************************)
(* C21.  With every thread that can run scheduled, every HTTP call         *)
(* returning within the second, and time passing, a run of the concurrent  *)
(* dispatcher that is not interrupted ends: the dispatch loop gets the     *)
(* semaphore unit it waits for, and every started worker ends.  A worker   *)
(* makes at most MAX_START_RETRY submission attempts,                      *)
(* its wait lasts at most MAX_WAIT_SECONDS plus one POLL_INTERVAL, and its *)
(* whole life at most WorkerMax; the main thread is past its joins only    *)
(* when every batch has been launched and every worker has ended; and      *)
(* LOG_CSV is written once, then, with the row of every worker.            *)
(***************************************************************************)
RunEnded == dpc \in {"done", "returned"}

AllJoined == \A t \in Started : wpc[t] = "done"

C21_RunTerminates ==
    /\ <>RunEnded
    /\ (dpc = "acquire") ~> (dpc = "start")
    /\ \A t \in Threads : (wpc[t] = "call") ~> (wpc[t] = "done")
    /\ [][ /\ \A t \in Threads :
                 /\ Len(calls'[t]) <= MAX_START_RETRY
                 /\ wpc'[t] \in {"poll", "psleep"} =>
                       now' - wstart'[t] <= MAX_WAIT_SECONDS + POLL_INTERVAL
                 /\ wpc'[t] \notin {"idle", "done"} => now' - launchTime'[t] <= WorkerMax
           /\ dpc' \in {"flush", "write", "done"} =>
                 (nthreads' = TotalBatches(files) /\ AllJoined')
           /\ logcsv' # logcsv =>
                 /\ ~logcsv.exists
                 /\ dpc = "write" /\ dpc' = "done"
                 /\ AllJoined
                 /\ Len(csv_rows) = nthreads
                 /\ logcsv'.lines = << header >> \o csv_rows ]_vars

\* A run of three batches has ended: the third launch had to wait for a
\* unit longer than the stagger, one worker gave up after its retries and
\* one timed out.
C21_Witness ==
    /\ dpc = "done"
    /\ ~interrupted
    /\ nthreads = 3
    /\ launchTime[3] - launchTime[2] > START_STAGGER_SECONDS
    /\ Len(RunLog) = 3
    /\ \E i, j \in 1..3 :
          /\ RowFinalState(RunLog[i]) = "NOT_STARTED"
          /\ RowFinalState(RunLog[j]) = "TIMEOUT"

(***************************************************************************)
(* Vocabulary of the claims about blocking.                                *)
(***************************************************************************)
\* The thread that changes the semaphore in this step.
SemaActor ==
    IF dpc = "acquire" /\ dpc' = "start" THEN {MainThread}
    ELSE { t \in Threads : wpc[t] = "release" /\ wpc'[t] = "done" }

\* Thread t is blocked in "with _csv_lock:".
WaitsForLock(t) ==
    /\ csv_lock \notin {Free, t}
    /\ IF t = MainThread THEN dpc = "flush" ELSE wpc[t] = "lock"

\* The main thread is blocked in sema.acquire(), which needs a unit that
\* only a worker's release can provide.
WaitsForUnit == dpc = "acquire" /\ sema = 0

\* Worker t holds one of the units: it was started and has not released.
HoldsUnit(t) == t \in Threads /\ wpc[t] \notin {"idle", "done"}

\* A thread is in time.sleep: it steps when time has passed.
SomeoneSleeps == dpc = "sleep" \/ \E t \in Threads : wpc[t] \in {"backoff", "psleep"}

SemaphoreOutsideLock ==
    [][ sema' # sema =>
          /\ SemaActor # {}
          /\ csv_lock \notin SemaActor
          /\ csv_lock' = csv_lock ]_vars

SomeThreadCanStep == ProcessAlive => (ThreadsCanRun \/ SomeoneSleeps)

(***************************************************************************)
(* C22 as claimed.  No thread acquires or releases the semaphore while it  *)
(* holds _csv_lock; no thread waits for _csv_lock while it holds something *)
(* another thread is waiting for; and in every state in which the process  *)
(* has not ended some thread can take a step (or will when its sleep       *)
(* ends), also when the final flush holds _csv_lock after an interrupt.    *)
(***************************************************************************)
C22_NoHoldWhileWaiting ==
    /\ SemaphoreOutsideLock
    /\ [](\A t \in Threads : WaitsForLock(t) => ~(HoldsUnit(t) /\ WaitsForUnit))
    /\ []SomeThreadCanStep

(***************************************************************************)
(* C22 as amended.  No thread acquires or releases the semaphore while it  *)
(* holds _csv_lock.  A worker does wait for _csv_lock while it holds a     *)
(* semaphore unit, also one that the blocked dispatch loop is waiting for; *)
(* but the thread that holds _csv_lock never waits for anything: it holds  *)
(* the lock only over its append (a worker) or over write_log_csv (the     *)
(* main thread), with no acquire, join or sleep inside, so the wait for    *)
(* the lock ends.  In every state in which the process has not ended some  *)
(* thread can take a step (or will when its sleep ends), also when the     *)
(* final flush holds _csv_lock after an interrupt.                         *)
(***************************************************************************)
LockHolderRuns ==
    /\ csv_lock = MainThread => dpc = "write"
    /\ \A t \in Threads : csv_lock = t => (wpc[t] = "append" /\ ENABLED AppendRow(t))
    /\ \A t \in Threads : wpc[t] = "append" => csv_lock = t
    /\ dpc = "write" => csv_lock = MainThread

C22_LockHolderNeverWaits ==
    /\ SemaphoreOutsideLock
    /\ [](LockHolderRuns \/ ~ProcessAlive)
    /\ []SomeThreadCanStep

\* A worker waits for _csv_lock, which another worker holds, with a unit
\* the dispatch loop is blocked on.
C22_Witness ==
    /\ WaitsForUnit
    /\ \E t, u \in Threads :
          /\ WaitsForLock(t)
          /\ HoldsUnit(t)
          /\ csv_lock = u

\* After an interrupt the main thread holds _csv_lock for the final flush
\* while a worker waits for the lock to record its row.
FlushHoldsLockAfterInterrupt ==
    /\ interrupted
    /\ dpc = "write"
    /\ \E t \in Threads : WaitsForLock(t)

(***************************************************************************)
(* C23.  A worker's wait that has seen its job RUNNING (running true) and  *)
(* whose poll no longer finds the job in the listing does not take the job *)
(* for finished: the pass goes to sleep for POLL_INTERVAL before the next  *)
(* poll, or, only when more than MAX_WAIT_SECONDS have elapsed since the   *)
(* start of the wait, returns TIMEOUT with the elapsed time.  The worker   *)
(* holds its semaphore unit during the whole wait: it releases it only     *)
(* after the wait has returned and the row is appended.                    *)
(***************************************************************************)
\* The worker's pass of the wait loop: get_crawl_state has returned.
WorkerPollStep(t) == wpc[t] = "poll" /\ wpc'[t] # "poll"

\* Earlier polls saw the job RUNNING, this one does not find it.
GoneAfterRunning == mon_last_state = "RUNNING" /\ JobName \notin DOMAIN mon_obs'.crawls

InWait(t) == wpc[t] \in {"poll", "psleep"}

C23_VanishedJobHoldsSlotUntilTimeout ==
    /\ [][ \A t \in Threads :
             (WorkerPollStep(t) /\ GoneAfterRunning) =>
                 /\ IF now - wstart[t] > MAX_WAIT_SECONDS
                    THEN /\ wpc'[t] = "lock"
                         /\ outcome'[t] = [path |-> "finished", final_state |-> "TIMEOUT",
                                           duration |-> now - wstart[t]]
                    ELSE /\ wpc'[t] = "psleep"
                         /\ wwake'[t] = now + POLL_INTERVAL
                         /\ outcome'[t] = NoOutcome
                 /\ mon_last_state' = "RUNNING"
                 /\ sema' = sema ]_vars
    /\ [][ \A t \in Threads :
             (InWait(t) \/ InWait(t)') =>
                 /\ sema' = sema
                 /\ sema < MAX_CONCURRENCY
                 /\ HoldsUnit(t) /\ HoldsUnit(t)' ]_vars

\* The job was seen RUNNING, has ended in the service and is no longer
\* listed; the wait has timed out and the worker, its row not yet recorded,
\* still holds its unit.
C23_Witness ==
    \E t \in Threads :
        /\ wpc[t] = "lock"
        /\ outcome[t].final_state = "TIMEOUT"
        /\ outcome[t].duration > MAX_WAIT_SECONDS
        /\ mon_last_state = "RUNNING"
        /\ JobName \notin DOMAIN mon_obs.crawls
        /\ remote[t] = "finished"
        /\ sema = MAX_CONCURRENCY - 1

(***************************************************************************)
(* C24.  In the retry loop, a rejected attempt k is followed by a sleep of *)
(* k times the base delay when another attempt follows (k below            *)
(* MAX_START_RETRY), and by no sleep when it was the last attempt: the     *)
(* worker then goes on to record NOT_STARTED.                              *)
(***************************************************************************)
\* start_crawl has returned to worker t with ok false.
RejectedStep(t) == wpc[t] = "call" /\ wpc'[t] # "call" /\ ~res'[t].ok

\* Rejected attempt k is followed by a sleep of k times the base delay.
LinearDelay(t) == wpc'[t] = "backoff" /\ wwake'[t] = now + attempt[t] * BACKOFF_BASE

C24_BackoffOnlyBetweenAttempts ==
    [][ \A t \in Threads :
          RejectedStep(t) =>
              IF attempt[t] < MAX_START_RETRY
              THEN LinearDelay(t)
              ELSE wpc'[t] # "backoff" /\ wwake'[t] = wwake[t] ]_vars

(***************************************************************************)
(* C25.  Every call of start_crawl returns (it never raises); it returns   *)
(* ok true exactly when a response came with a status in 200..299; when no *)
(* response came it returns ok false, the code -1 and a message that       *)
(* starts with EXCEPTION.                                                  *)
(***************************************************************************)
IsSuccessStatus(code) == 200 <= code /\ code <= 299

C25_AcceptedIffSuccessStatus ==
    /\ \A t \in Threads :
          \A i \in 1..Len(calls[t]) :
              LET r == calls[t][i]
              IN  /\ r.ok <=> IsSuccessStatus(r.code)
                  /\ r.code = 0 - 1 \/ r.code >= 100
                  /\ r.code = 0 - 1 => (~r.ok /\ Len(r.msg) >= 1 /\ r.msg[1] = "EXCEPTION: ")
    /\ \A t \in Threads : outcome[t].path = "exception" => polled[t]

(***************************************************************************)
(* C26.  The job name of a batch is made once, by the main thread, in the  *)
(* step that starts the worker, and never changes; every POST of the       *)
(* worker carries that name; every POST but the worker's last was          *)
(* rejected, so the client sees at most one accepted submission per batch  *)
(* and a retry resubmits under the identical name.                         *)
(***************************************************************************)
PostsBy(t) == { i \in 1..Len(posts) : posts[i].by = t }

C26_OneNamePerBatch ==
    /\ [][ \A t \in Threads :
             wname'[t] # wname[t] =>
                 /\ dpc = "start" /\ dpc' = "sleep"
                 /\ wpc[t] = "idle" /\ wpc'[t] = "call"
                 /\ wname[t] = ""
                 /\ PostsBy(t) = {} ]_vars
    /\ [](\A t \in Threads :
             /\ \A i \in PostsBy(t) : posts[i].name = wname[t] /\ posts[i].name # ""
             /\ \A i, j \in PostsBy(t) : posts[i].name = posts[j].name
             /\ \A i, j \in PostsBy(t) : i < j => ~posts[i].ok
             /\ Cardinality({ i \in PostsBy(t) : posts[i].ok }) <= 1
             /\ Cardinality(PostsBy(t)) <= MAX_START_RETRY)

\* A rejected POST and, a back-off later, an accepted one, under one name.
C26_Witness ==
    \E t \in Threads :
        /\ PostsBy(t) = {1, 2}
        /\ ~posts[1].ok
        /\ posts[2].ok
        /\ posts[1].name = posts[2].name
        /\ wpc[t] = "poll"
        /\ now > launchTime[t]

TimeoutAtLatest ==
    /\ ReturnedState("TIMEOUT")
    /\ mon_result.duration = MAX_WAIT_SECONDS + POLL_INTERVAL + HTTP_TIMEOUT

(***************************************************************************)
(* C28.  The final_state of every row that a worker has recorded, and of   *)
(* every row written to LOG_CSV, is one of TERMINATED, FINISHED, STOPPED,  *)
(* KILLED, FAILED, COMPLETED, UNKNOWN, TIMEOUT, NOT_STARTED and            *)
(* UNKNOWN_ERROR: a state the service reports in another spelling, or a    *)
(* state that is not terminal, is never copied into a row as it came.      *)
(***************************************************************************)
FinalStateVocabulary ==
    TERMINAL_STATES \cup {"UNKNOWN", "TIMEOUT", "NOT_STARTED", "UNKNOWN_ERROR"}

C28_FinalStateInVocabulary ==
    /\ \A i \in 1..Len(csv_rows) : RowFinalState(csv_rows[i]) \in FinalStateVocabulary
    /\ \A i \in 1..Len(RunLog) : RowFinalState(RunLog[i]) \in FinalStateVocabulary

(***************************************************************************)
(* C29.  In the sequential program the batches are handled one at a time,  *)
(* in index order: a batch is submitted only when the batch before it is   *)
(* settled, that is, has its row, which is recorded when its retries are   *)
(* exhausted (NOT_STARTED, after MAX_START_RETRY rejected attempts) or     *)
(* when its wait_until_finished has returned (a state of the service or    *)
(* TIMEOUT); so at most one batch is submitted and not settled.  After a   *)
(* NOT_STARTED row the loop goes on with the next batch.  The i-th row     *)
(* collected is the row of batch i, and a run that ends writes exactly     *)
(* these rows, one per batch, to LOG_CSV.                                  *)
(***************************************************************************)
Submitted(k) == calls[k] # << >>

Settled(k) == \E i \in 1..Len(rowsBy) : rowsBy[i] = k

C29_OneBatchAtATime ==
    /\ [](\A k \in Threads :
             /\ (k > 1 /\ (Submitted(k) \/ wname[k] # "")) => Settled(k - 1)
             /\ Settled(k) =>
                   /\ csv_rows[k][1] = k
                   /\ rowsBy[k] = k
                   /\ Len(calls[k]) >= 1
                   /\ IF calls[k][Len(calls[k])].ok
                      THEN waits[k] = 1 /\ polled[k] /\ RowStartOk(csv_rows[k])
                           /\ RowFinalState(csv_rows[k]) # "NOT_STARTED"
                      ELSE Len(calls[k]) = MAX_START_RETRY /\ waits[k] = 0
                           /\ RowFinalState(csv_rows[k]) = "NOT_STARTED"
             /\ (waits[k] = 1 /\ ~Settled(k)) => (idx = k /\ dpc \in {"poll", "psleep", "crashed"}))
    /\ [](Cardinality({ k \in Threads : Submitted(k) /\ ~Settled(k) }) <= 1)
    /\ [](Len(csv_rows) = Len(rowsBy) /\ \A i \in 1..Len(csv_rows) : RowIdx(csv_rows[i]) = i)
    /\ [](dpc = "done" => (RunLog = csv_rows /\ Len(RunLog) = Len(batches)))
    /\ [][ (Len(csv_rows') > Len(csv_rows)
            /\ RowFinalState(csv_rows'[Len(csv_rows')]) = "NOT_STARTED") =>
               IF idx < Len(batches)
               THEN dpc' = "name" /\ idx' = idx + 1
               ELSE dpc' = "write" ]_vars

\* Batch 1 was given up after its retries, and the loop has gone on: batch
\* 2 has been accepted and is waited for.
C29_Witness ==
    /\ variant = "seq"
    /\ Len(csv_rows) = 1
    /\ RowFinalState(csv_rows[1]) = "NOT_STARTED"
    /\ idx = 2
    /\ dpc = "poll"
    /\ Submitted(2)

\* A run of three batches has ended and written its three rows.
SeqRunWritten ==
    /\ variant = "seq"
    /\ dpc = "done"
    /\ Len(RunLog) = 3

(***************************************************************************)
(* C30.  In every variant, no two rows of one run carry the same           *)
(* batch_idx: neither among the rows collected in _csv_rows nor among the  *)
(* rows written to LOG_CSV.                                                *)
(***************************************************************************)
DistinctIdx(rows) ==
    \A i, j \in 1..Len(rows) : RowIdx(rows[i]) = RowIdx(rows[j]) => i = j

C30_BatchIdxIdentifiesRow ==
    /\ DistinctIdx(csv_rows)
    /\ DistinctIdx(RunLog)

\* The same restricted to the variants that read one seeds file.
OneFileDistinctIdx ==
    variant \in {"multi", "seq"} => C30_BatchIdxIdentifiesRow

\* A run of a one-file variant has written at least two rows.
OneFileRunWritten ==
    /\ variant \in {"multi", "seq"}
    /\ dpc = "done"
    /\ Len(RunLog) >= 2

====
